---- MODULE Spec2Model ----
(***************************************************************************)
(* Model of the slip OCR endpoint of slipshot (slips/views.py).  A text is *)
(* a sequence of Unicode code points, so that the character ranges of the  *)
(* regular expressions ([ก-๙] = 3585..3673, \d, a-z) are the ranges of the *)
(* source.  A string constant of the source is written as the tuple of its *)
(* code points, with the string itself in the comment that follows it.     *)
(***************************************************************************)
EXTENDS Integers, Sequences, FiniteSets, TLC

\* ------------------------------------------------------------ characters

LatinUpper == 65..90
LatinLower == 97..122
AsciiDigit == 48..57
ThaiDigit == 3664..3673
\* \d of a str pattern: every Unicode decimal digit (here ASCII and Thai)
DigitCh == AsciiDigit \cup ThaiDigit
\* [ก-๙]
ThaiCh == 3585..3673
\* [ก-๙a-zA-Z]
NameCh == ThaiCh \cup LatinLower \cup LatinUpper
\* \s: tab, newline, vertical tab, form feed, carriage return, space
SpaceCh == (9..13) \cup {32}
NL == 10

\* str.lower() of one character; case folding of re.IGNORECASE
LowerCh(c) == IF c \in LatinUpper THEN c + 32 ELSE c
UpperCh(c) == IF c \in LatinLower THEN c - 32 ELSE c

Max2(a, b) == IF a >= b THEN a ELSE b
Min2(a, b) == IF a <= b THEN a ELSE b

\* ------------------------------------------------------------ str methods

lower(s) == [i \in 1..Len(s) |-> LowerCh(s[i])]

\* s.startswith(p) and p occurring in s at position i
OccursAt(s, p, i) ==
    /\ i + Len(p) - 1 <= Len(s)
    /\ \A j \in 1..Len(p) : s[i + j - 1] = p[j]

startswith(s, p) == OccursAt(s, p, 1)

endswith(s, p) == Len(p) <= Len(s) /\ OccursAt(s, p, Len(s) - Len(p) + 1)

\* p in s
Contains(s, p) == \E i \in 1..(Len(s) - Len(p) + 1) : OccursAt(s, p, i)

RECURSIVE LStrip(_)
LStrip(s) ==
    IF s # <<>> /\ s[1] \in SpaceCh THEN LStrip(Tail(s)) ELSE s

RECURSIVE RStrip(_)
RStrip(s) ==
    IF s # <<>> /\ s[Len(s)] \in SpaceCh THEN RStrip(SubSeq(s, 1, Len(s) - 1)) ELSE s

\* s.strip()
strip(s) == RStrip(LStrip(s))

\* s.replace(c, '') for a single character c
RECURSIVE RemoveCh(_, _)
RemoveCh(s, c) ==
    IF s = <<>> THEN <<>>
    ELSE IF s[1] = c THEN RemoveCh(Tail(s), c)
    ELSE <<s[1]>> \o RemoveCh(Tail(s), c)

\* s.split(): the maximal runs of non-whitespace characters
RECURSIVE SplitFrom(_, _, _)
SplitFrom(s, i, cur) ==
    IF i > Len(s) THEN (IF cur = <<>> THEN <<>> ELSE <<cur>>)
    ELSE IF s[i] \in SpaceCh
         THEN (IF cur = <<>> THEN <<>> ELSE <<cur>>) \o SplitFrom(s, i + 1, <<>>)
         ELSE SplitFrom(s, i + 1, Append(cur, s[i]))

split(s) == SplitFrom(s, 1, <<>>)

\* ' '.join(parts)
RECURSIVE JoinSp(_)
JoinSp(parts) ==
    IF parts = <<>> THEN <<>>
    ELSE IF Len(parts) = 1 THEN parts[1]
    ELSE parts[1] \o <<32>> \o JoinSp(Tail(parts))

\* ------------------------------------------------------------ re
\* A pattern is a tree of nodes; Match gives the ways a node can match at a
\* position, in the order a backtracking matcher tries them (greedy
\* repetition first, alternatives left to right), so the first complete
\* match is the one re.search / re.findall reports.

Inf == -1
Lit(s) == [k |-> "lit", s |-> s]
Set(S) == [k |-> "set", S |-> S]
Cat(rs) == [k |-> "cat", rs |-> rs]
Alt(rs) == [k |-> "alt", rs |-> rs]
Rep(r, lo, hi) == [k |-> "rep", r |-> r, lo |-> lo, hi |-> hi]
Star(r) == Rep(r, 0, Inf)
Plus(r) == Rep(r, 1, Inf)
Opt(r) == Rep(r, 0, 1)
Grp(r) == [k |-> "grp", r |-> r]
Bol == [k |-> "bol"]
Eol == [k |-> "eol"]
LookBehind(S) == [k |-> "lb", S |-> S]
LookAhead(S) == [k |-> "la", S |-> S]
\* alternation of literal strings, (?:s1|s2|...)
Lits(ss) == [k |-> "lits", ss |-> ss]

\* flags
Flags(ic, ml) == [ic |-> ic, ml |-> ml]

InSet(c, S, fl) ==
    \/ c \in S
    \/ fl.ic /\ (LowerCh(c) \in S \/ UpperCh(c) \in S)

LitAt(t, s, p, fl) ==
    /\ p + Len(s) - 1 <= Len(t)
    /\ \A j \in 1..Len(s) :
          IF fl.ic THEN LowerCh(t[p + j - 1]) = LowerCh(s[j])
          ELSE t[p + j - 1] = s[j]

AtBol(t, p, fl) == p = 1 \/ (fl.ml /\ t[p - 1] = NL)

AtEol(t, p, fl) ==
    \/ p = Len(t) + 1
    \/ (p = Len(t) /\ t[p] = NL)
    \/ (fl.ml /\ p <= Len(t) /\ t[p] = NL)

RECURSIVE Match(_, _, _, _)
RECURSIVE MatchAll(_, _, _, _, _)
RECURSIVE MatchCat(_, _, _, _, _)
RECURSIVE MatchAlt(_, _, _, _, _)
RECURSIVE MatchRep(_, _, _, _, _, _)

\* st = [p |-> next position, g |-> spans <<first, last+1>> of the groups]
Match(r, t, st, fl) ==
    CASE r.k = "set" ->
           IF st.p <= Len(t) /\ InSet(t[st.p], r.S, fl)
           THEN <<[st EXCEPT !.p = st.p + 1]>> ELSE <<>>
      [] r.k = "lit" ->
           IF LitAt(t, r.s, st.p, fl)
           THEN <<[st EXCEPT !.p = st.p + Len(r.s)]>> ELSE <<>>
      [] r.k = "lits" ->
           LET hit == SelectSeq(r.ss, LAMBDA s : LitAt(t, s, st.p, fl))
           IN  [i \in 1..Len(hit) |-> [st EXCEPT !.p = st.p + Len(hit[i])]]
      [] r.k = "cat" -> MatchCat(r.rs, 1, t, <<st>>, fl)
      [] r.k = "alt" -> MatchAlt(r.rs, 1, t, st, fl)
      [] r.k = "rep" -> MatchRep(r.r, t, st, r.lo, r.hi, fl)
      [] r.k = "grp" ->
           LET inner == Match(r.r, t, st, fl)
           IN  [i \in 1..Len(inner) |->
                  [inner[i] EXCEPT !.g = Append(st.g, <<st.p, inner[i].p>>)]]
      [] r.k = "bol" -> IF AtBol(t, st.p, fl) THEN <<st>> ELSE <<>>
      [] r.k = "eol" -> IF AtEol(t, st.p, fl) THEN <<st>> ELSE <<>>
      [] r.k = "lb" ->
           IF st.p > 1 /\ InSet(t[st.p - 1], r.S, fl) THEN <<st>> ELSE <<>>
      [] r.k = "la" ->
           IF st.p <= Len(t) /\ InSet(t[st.p], r.S, fl) THEN <<st>> ELSE <<>>

\* r matched from each of the states sts[i..], in order
MatchAll(r, t, sts, i, fl) ==
    IF i > Len(sts) THEN <<>>
    ELSE Match(r, t, sts[i], fl) \o MatchAll(r, t, sts, i + 1, fl)

MatchCat(rs, i, t, sts, fl) ==
    IF i > Len(rs) \/ sts = <<>> THEN sts
    ELSE MatchCat(rs, i + 1, t, MatchAll(rs[i], t, sts, 1, fl), fl)

MatchAlt(rs, i, t, st, fl) ==
    IF i > Len(rs) THEN <<>>
    ELSE Match(rs[i], t, st, fl) \o MatchAlt(rs, i + 1, t, st, fl)

RECURSIVE MatchRepAll(_, _, _, _, _, _, _)
MatchRepAll(r, t, sts, i, lo, hi, fl) ==
    IF i > Len(sts) THEN <<>>
    ELSE MatchRep(r, t, sts[i], lo, hi, fl) \o MatchRepAll(r, t, sts, i + 1, lo, hi, fl)

\* the number of characters of S that t has from position p on
RECURSIVE RunLength(_, _, _, _)
RunLength(S, t, p, fl) ==
    IF p <= Len(t) /\ InSet(t[p], S, fl) THEN 1 + RunLength(S, t, p + 1, fl) ELSE 0

\* greedy [S]{lo,hi} over a run of `run` characters of S: the longest
\* repetition first, down to lo characters
MatchRepSet(st, lo, top) ==
    IF top < lo THEN <<>>
    ELSE [i \in 1..(top - lo + 1) |-> [st EXCEPT !.p = st.p + top + 1 - i]]

\* greedy r{lo,hi}: one more r first, then stopping here
MatchRep(r, t, st, lo, hi, fl) ==
    IF r.k = "set"
    THEN MatchRepSet(st, lo, IF hi = Inf THEN RunLength(r.S, t, st.p, fl)
                             ELSE Min2(hi, RunLength(r.S, t, st.p, fl)))
    ELSE LET once == IF hi = 0 THEN <<>> ELSE Match(r, t, st, fl)
             fwd  == SelectSeq(once, LAMBDA s : s.p > st.p)
             more == MatchRepAll(r, t, fwd, 1, Max2(lo - 1, 0),
                                 IF hi = Inf THEN Inf ELSE hi - 1, fl)
         IN  more \o (IF lo = 0 THEN <<st>> ELSE <<>>)

\* What a match of r can start with: S, the characters it can consume
\* first, and nul, whether it can match without consuming any.
RECURSIVE FirstOf(_)
RECURSIVE FirstOfCat(_, _)
RECURSIVE FirstOfAlt(_, _)
FirstOf(r) ==
    CASE r.k = "set" -> [nul |-> FALSE, S |-> r.S]
      [] r.k = "lit" -> IF r.s = <<>> THEN [nul |-> TRUE, S |-> {}]
                        ELSE [nul |-> FALSE, S |-> {r.s[1]}]
      [] r.k = "lits" -> [nul |-> \E i \in 1..Len(r.ss) : r.ss[i] = <<>>,
                          S |-> {r.ss[i][1] : i \in {j \in 1..Len(r.ss) : r.ss[j] # <<>>}}]
      [] r.k = "cat" -> FirstOfCat(r.rs, 1)
      [] r.k = "alt" -> FirstOfAlt(r.rs, 1)
      [] r.k = "rep" -> LET f == FirstOf(r.r)
                        IN  [nul |-> f.nul \/ r.lo = 0, S |-> f.S]
      [] r.k = "grp" -> FirstOf(r.r)
      [] OTHER -> [nul |-> TRUE, S |-> {}]

FirstOfCat(rs, i) ==
    IF i > Len(rs) THEN [nul |-> TRUE, S |-> {}]
    ELSE LET f == FirstOf(rs[i])
         IN  IF ~f.nul THEN f
             ELSE LET g == FirstOfCat(rs, i + 1)
                  IN  [nul |-> g.nul, S |-> f.S \cup g.S]

FirstOfAlt(rs, i) ==
    IF i > Len(rs) THEN [nul |-> FALSE, S |-> {}]
    ELSE LET f == FirstOf(rs[i])
             g == FirstOfAlt(rs, i + 1)
         IN  [nul |-> f.nul \/ g.nul, S |-> f.S \cup g.S]

NoMatch == [s |-> 0, e |-> 0, g |-> <<>>]

\* the positions from `from` on at which a match of r can start
StartsFrom(t, from, first, fl) ==
    {i \in from..(Len(t) + 1) :
        first.nul \/ (i <= Len(t) /\ InSet(t[i], first.S, fl))}

\* the leftmost match among the start positions ps
RECURSIVE SearchAt(_, _, _, _)
SearchAt(r, t, ps, fl) ==
    IF ps = {} THEN NoMatch
    ELSE LET i   == CHOOSE x \in ps : \A y \in ps : x <= y
             res == Match(r, t, [p |-> i, g |-> <<>>], fl)
         IN  IF res # <<>> THEN [s |-> i, e |-> res[1].p, g |-> res[1].g]
             ELSE SearchAt(r, t, {x \in ps : x > i}, fl)

\* re.search(r, t) from position from on: the leftmost match
SearchFrom(r, t, from, fl) == SearchAt(r, t, StartsFrom(t, from, FirstOf(r), fl), fl)

search(r, t, fl) == SearchFrom(r, t, 1, fl)

\* the text of group n of a match
GroupText(t, m, n) == SubSeq(t, m.g[n][1], m.g[n][2] - 1)

\* re.findall(r, t) of a pattern with one group: the group of each of the
\* non-overlapping matches, left to right
RECURSIVE FindAllAt(_, _, _, _)
FindAllAt(r, t, ps, fl) ==
    LET m == SearchAt(r, t, ps, fl)
    IN  IF m.s = 0 THEN <<>>
        ELSE <<GroupText(t, m, 1)>>
             \o FindAllAt(r, t, {x \in ps : x >= Max2(m.e, m.s + 1)}, fl)

findall(r, t, fl) == FindAllAt(r, t, StartsFrom(t, 1, FirstOf(r), fl), fl)

\* ------------------------------------------------------------ slip filter

\* slip_keywords (views.py 229-242), in list order
slip_keywords ==
    << <<3650, 3629, 3609, 3648, 3591, 3636, 3609>> (* "โอนเงิน" *), <<3648, 3605, 3636, 3617, 3648, 3591, 3636, 3609>> (* "เติมเงิน" *), <<3594, 3635, 3619, 3632>> (* "ชำระ" *), <<3619, 3633, 3610, 3648, 3591, 3636, 3609>> (* "รับเงิน" *), <<3606, 3629, 3609, 3648, 3591, 3636, 3609>> (* "ถอนเงิน" *),
       <<3626, 3635, 3648, 3619, 3655, 3592>> (* "สำเร็จ" *), <<115, 117, 99, 99, 101, 115, 115, 102, 117, 108>> (* "successful" *), <<116, 114, 97, 110, 115, 102, 101, 114>> (* "transfer" *), <<112, 97, 121, 109, 101, 110, 116>> (* "payment" *),
       <<3614, 3619, 3657, 3629, 3617, 3648, 3614, 3618, 3660>> (* "พร้อมเพย์" *), <<112, 114, 111, 109, 112, 116, 112, 97, 121>> (* "promptpay" *), <<112, 114, 111, 109, 112, 116, 32, 112, 97, 121>> (* "prompt pay" *),
       <<3608, 3609, 3634, 3588, 3634, 3619>> (* "ธนาคาร" *), <<98, 97, 110, 107>> (* "bank" *), <<115, 99, 98>> (* "scb" *), <<107, 98, 97, 110, 107>> (* "kbank" *), <<107, 116, 98>> (* "ktb" *), <<98, 98, 108>> (* "bbl" *),
       <<116, 109, 98>> (* "tmb" *), <<116, 116, 98>> (* "ttb" *), <<103, 115, 98>> (* "gsb" *), <<98, 97, 121>> (* "bay" *),
       <<3585, 3626, 3636, 3585, 3619>> (* "กสิกร" *), <<3652, 3607, 3618, 3614, 3634, 3603, 3636, 3594, 3618, 3660>> (* "ไทยพาณิชย์" *), <<3585, 3619, 3640, 3591, 3648, 3607, 3614>> (* "กรุงเทพ" *), <<3585, 3619, 3640, 3591, 3652, 3607, 3618>> (* "กรุงไทย" *), <<3585, 3619, 3640, 3591, 3624, 3619, 3637>> (* "กรุงศรี" *),
       <<3629, 3629, 3617, 3626, 3636, 3609>> (* "ออมสิน" *), <<3607, 3627, 3634, 3619, 3652, 3607, 3618>> (* "ทหารไทย" *),
       <<3610, 3634, 3607>> (* "บาท" *), <<116, 104, 98>> (* "thb" *), <<3647>> (* "฿" *),
       <<3648, 3621, 3586, 3607, 3637, 3656, 3619, 3634, 3618, 3585, 3634, 3619>> (* "เลขที่รายการ" *), <<3619, 3627, 3633, 3626, 3629, 3657, 3634, 3591, 3629, 3636, 3591>> (* "รหัสอ้างอิง" *), <<114, 101, 102, 101, 114, 101, 110, 99, 101>> (* "reference" *), <<114, 101, 102>> (* "ref" *),
       <<3612, 3641, 3657, 3650, 3629, 3609>> (* "ผู้โอน" *), <<3612, 3641, 3657, 3619, 3633, 3610>> (* "ผู้รับ" *), <<3592, 3634, 3585>> (* "จาก" *), <<3652, 3611, 3618, 3633, 3591>> (* "ไปยัง" *), <<116, 111>> (* "to" *), <<102, 114, 111, 109>> (* "from" *),
       <<3610, 3633, 3597, 3594, 3637>> (* "บัญชี" *), <<97, 99, 99, 111, 117, 110, 116>> (* "account" *), <<120, 120, 120, 45>> (* "xxx-" *), <<120, 45, 120>> (* "x-x" *),
       <<3588, 3656, 3634, 3608, 3619, 3619, 3617, 3648, 3609, 3637, 3618, 3617>> (* "ค่าธรรมเนียม" *), <<102, 101, 101>> (* "fee" *),
       <<119, 97, 108, 108, 101, 116>> (* "wallet" *), <<101, 45, 119, 97, 108, 108, 101, 116>> (* "e-wallet" *), <<116, 114, 117, 101, 32, 109, 111, 110, 101, 121>> (* "true money" *), <<116, 114, 117, 101, 109, 111, 110, 101, 121>> (* "truemoney" *) >>

\* sum(1 for kw in slip_keywords if kw.lower() in text_lower)
slip_keyword_count(text) ==
    LET text_lower == lower(text)
    IN  Cardinality({i \in 1..Len(slip_keywords) :
                        Contains(text_lower, lower(slip_keywords[i]))})

MinSlipKeywords == 3

\* faulty variant: the filter passes a text with two keywords
is_likely_slip_two(text) == slip_keyword_count(text) >= MinSlipKeywords - 1

is_likely_slip(text) == slip_keyword_count(text) >= MinSlipKeywords

\* ------------------------------------------------------------ normalizer

Ch0 == 48
ChO == {111, 79}
ChX == {120, 88}

\* re.sub(r'(?<=\d)[mid](?=\d)', repl, text): the lookarounds consume
\* nothing, so every occurrence is judged on the text as it was
SubBetweenDigits(text, mid, repl) ==
    [i \in 1..Len(text) |->
        IF /\ text[i] \in mid
           /\ i > 1 /\ text[i - 1] \in DigitCh
           /\ i < Len(text) /\ text[i + 1] \in DigitCh
        THEN repl ELSE text[i]]

\* faulty variant: the character before the o is not looked at
RECURSIVE SubMaskedO_noleft(_, _)
SubMaskedO_noleft(text, i) ==
    IF i > Len(text) THEN <<>>
    ELSE IF /\ i + 1 <= Len(text)
            /\ text[i] \in ChO
            /\ text[i + 1] \in ChX \cup DigitCh
         THEN <<Ch0, text[i + 1]>> \o SubMaskedO_noleft(text, i + 2)
         ELSE <<text[i]>> \o SubMaskedO_noleft(text, i + 1)

\* re.sub(r'([xX\d])[oO]([xX\d])', r'\g<1>0\g<2>', text): each match
\* consumes its three characters
RECURSIVE SubMaskedO(_, _)
SubMaskedO(text, i) ==
    IF i > Len(text) THEN <<>>
    ELSE IF /\ i + 2 <= Len(text)
            /\ text[i] \in ChX \cup DigitCh
            /\ text[i + 1] \in ChO
            /\ text[i + 2] \in ChX \cup DigitCh
         THEN <<text[i], Ch0, text[i + 2]>> \o SubMaskedO(text, i + 3)
         ELSE <<text[i]>> \o SubMaskedO(text, i + 1)

fix_ocr_common(text) ==
    LET t1 == SubBetweenDigits(text, ChO, Ch0)
        t2 == SubMaskedO(t1, 1)
        t3 == SubBetweenDigits(t2, {108, 73}, 49)
        t4 == SubBetweenDigits(t3, {115, 83}, 53)
        t5 == SubBetweenDigits(t4, {66}, 56)
    IN  t5

\* ------------------------------------------------------------ names

IM == Flags(TRUE, TRUE)
IOnly == Flags(TRUE, FALSE)
NoFlags == Flags(FALSE, FALSE)

\* [ก-๙a-zA-Z]+\s+[ก-๙a-zA-Z]+\.?
TwoWords ==
    Cat(<<Plus(Set(NameCh)), Plus(Set(SpaceCh)), Plus(Set(NameCh)), Opt(Lit(<<46>>))>>)

\* [ก-๙]+\s+[ก-๙]+\.?
TwoThaiWords ==
    Cat(<<Plus(Set(ThaiCh)), Plus(Set(SpaceCh)), Plus(Set(ThaiCh)), Opt(Lit(<<46>>))>>)

\* [\s\n:]
SepCh == SpaceCh \cup {58}

\* (?:cue|cue|...)[\s\n:]*(two words)
CuePattern(cues) == Cat(<<cues, Star(Set(SepCh)), Grp(TwoWords)>>)

\* (?:นาย|นาง|นางสาว|น\.ส\.|Mr\.|Mrs\.|Ms\.)
Honorific ==
    Lits(<< <<3609, 3634, 3618>> (* "นาย" *), <<3609, 3634, 3591>> (* "นาง" *), <<3609, 3634, 3591, 3626, 3634, 3623>> (* "นางสาว" *), <<3609, 46, 3626, 46>> (* "น.ส." *), <<77, 114, 46>> (* "Mr." *), <<77, 114, 115, 46>> (* "Mrs." *), <<77, 115, 46>> (* "Ms." *) >>)

name_patterns ==
    << CuePattern(Alt(<< Lit(<<3614, 3619, 3657, 3629, 3617, 3648, 3614, 3618, 3660>> (* "พร้อมเพย์" *)), Lit(<<80, 114, 111, 109, 112, 116, 80, 97, 121>> (* "PromptPay" *)),
                         Cat(<<Lit(<<3614, 3619, 3657, 3629, 3617>> (* "พร้อม" *)), Star(Set(SpaceCh)), Lit(<<3648, 3614, 3618, 3660>> (* "เพย์" *))>>) >>)),
       CuePattern(Lits(<< <<3612, 3641, 3657, 3619, 3633, 3610>> (* "ผู้รับ" *), <<84, 111>> (* "To" *), <<3652, 3611, 3618, 3633, 3591>> (* "ไปยัง" *), <<3594, 3639, 3656, 3629, 3612, 3641, 3657, 3619, 3633, 3610>> (* "ชื่อผู้รับ" *),
                          <<82, 101, 99, 105, 112, 105, 101, 110, 116>> (* "Recipient" *), <<3610, 3633, 3597, 3594, 3637, 3611, 3621, 3634, 3618, 3607, 3634, 3591>> (* "บัญชีปลายทาง" *) >>)),
       CuePattern(Alt(<< Cat(<<Lit(<<65, 99, 99, 111, 117, 110, 116>> (* "Account" *)), Star(Set(SpaceCh)), Lit(<<78, 97, 109, 101>> (* "Name" *))>>),
                         Lit(<<3594, 3639, 3656, 3629, 3610, 3633, 3597, 3594, 3637>> (* "ชื่อบัญชี" *)) >>)),
       CuePattern(Lits(<< <<3612, 3641, 3657, 3650, 3629, 3609>> (* "ผู้โอน" *), <<70, 114, 111, 109>> (* "From" *), <<3592, 3634, 3585>> (* "จาก" *), <<3594, 3639, 3656, 3629, 3612, 3641, 3657, 3650, 3629, 3609>> (* "ชื่อผู้โอน" *), <<83, 101, 110, 100, 101, 114>> (* "Sender" *) >>)),
       CuePattern(Alt(<< Lit(<<3619, 3633, 3610, 3648, 3591, 3636, 3609, 3592, 3634, 3585>> (* "รับเงินจาก" *)), Lit(<<3650, 3629, 3609, 3592, 3634, 3585>> (* "โอนจาก" *)),
                         Cat(<<Lit(<<84, 114, 97, 110, 115, 102, 101, 114>> (* "Transfer" *)), Star(Set(SpaceCh)), Lit(<<102, 114, 111, 109>> (* "from" *))>>) >>)),
       CuePattern(Lits(<< <<3650, 3629, 3609, 3651, 3627, 3657>> (* "โอนให้" *), <<3650, 3629, 3609, 3652, 3611, 3618, 3633, 3591>> (* "โอนไปยัง" *), <<3652, 3611, 3610, 3633, 3597, 3594, 3637>> (* "ไปบัญชี" *) >>)),
       CuePattern(Lits(<< <<3612, 3641, 3657, 3619, 3633, 3610, 3648, 3591, 3636, 3609>> (* "ผู้รับเงิน" *), <<3611, 3621, 3634, 3618, 3607, 3634, 3591>> (* "ปลายทาง" *) >>)),
       CuePattern(Lits(<< <<3610, 3633, 3597, 3594, 3637, 3612, 3641, 3657, 3619, 3633, 3610>> (* "บัญชีผู้รับ" *), <<65, 99, 99, 111, 117, 110, 116>> (* "Account" *) >>)),
       Grp(Cat(<<Honorific, Star(Set(SpaceCh)), TwoWords>>)),
       Cat(<<Bol, Star(Set(SpaceCh)), Grp(TwoThaiWords), Star(Set(SpaceCh)), Eol>>),
       Cat(<<Set(SepCh), Grp(TwoThaiWords), Star(Set(SpaceCh)),
             Alt(<<Lit(<<NL>>), Eol>>)>>) >>

\* re.sub(r'^(นาย|นาง|นางสาว|น\.ส\.|Mr\.|Mrs\.|Ms\.)\s*', '', n, flags=re.IGNORECASE)
StripHonorific(n) ==
    LET res == Match(Cat(<<Honorific, Star(Set(SpaceCh))>>), n,
                     [p |-> 1, g |-> <<>>], IOnly)
    IN  IF res = <<>> THEN n ELSE SubSeq(n, res[1].p, Len(n))

\* re.match(r'^[\d\s.,]+$', n)
OnlyDigitsAndPunct(n) ==
    Match(Cat(<<Plus(Set(DigitCh \cup SpaceCh \cup {46, 44})), Eol>>), n,
          [p |-> 1, g |-> <<>>], NoFlags) # <<>>

ContainsAny(n, words) == \E i \in 1..Len(words) : Contains(n, words[i])

\* exclude_words of the general list (views.py 320)
exclude_words ==
    << <<3650, 3629, 3609, 3648, 3591, 3636, 3609>> (* "โอนเงิน" *), <<3626, 3635, 3648, 3619, 3655, 3592>> (* "สำเร็จ" *), <<3610, 3634, 3607>> (* "บาท" *), <<3619, 3634, 3618, 3585, 3634, 3619>> (* "รายการ" *), <<3608, 3609, 3634, 3588, 3634, 3619>> (* "ธนาคาร" *), <<3610, 3633, 3597, 3594, 3637>> (* "บัญชี" *),
       <<3648, 3621, 3586, 3607, 3637, 3656>> (* "เลขที่" *), <<3627, 3617, 3634, 3618, 3648, 3627, 3605, 3640>> (* "หมายเหตุ" *), <<3623, 3633, 3609, 3607, 3637, 3656>> (* "วันที่" *), <<3648, 3623, 3621, 3634>> (* "เวลา" *) >>

\* exclude of is_valid_name (views.py 453)
exclude == exclude_words \o << <<3592, 3635, 3609, 3623, 3609>> (* "จำนวน" *) >>

clean_name(n) ==
    IF n = <<>> THEN <<>> ELSE JoinSp(split(StripHonorific(strip(n))))

is_valid_name(n) ==
    /\ Len(n) >= 2
    /\ ~OnlyDigitsAndPunct(n)
    /\ ~ContainsAny(n, exclude)

\* the cleanup of one match of a general pattern (views.py 310-321)
GeneralNameOk(name) ==
    /\ Len(name) > 2
    /\ ~OnlyDigitsAndPunct(name)
    /\ ~ContainsAny(name, exclude_words)

\* faulty variant: a name is appended each time it is found
RECURSIVE AddNames_again(_, _, _)
AddNames_again(acc, ms, general) ==
    IF ms = <<>> THEN acc
    ELSE LET name == clean_name(ms[1])
             ok   == IF general THEN GeneralNameOk(name) ELSE is_valid_name(name)
         IN  AddNames_again(IF ok THEN Append(acc, name) ELSE acc, Tail(ms), general)

\* append the accepted names of ms, left to right, skipping those already listed
RECURSIVE AddNames(_, _, _)
AddNames(acc, ms, general) ==
    IF ms = <<>> THEN acc
    ELSE LET name == clean_name(ms[1])
             ok   == IF general THEN GeneralNameOk(name) ELSE is_valid_name(name)
             seen == \E i \in 1..Len(acc) : acc[i] = name
         IN  AddNames(IF ok /\ ~seen THEN Append(acc, name) ELSE acc, Tail(ms), general)

\* for pattern in patterns: for m in re.findall(pattern, text, I | M): ...
RECURSIVE CollectNames(_, _, _, _, _)
CollectNames(patterns, i, text, acc, general) ==
    IF i > Len(patterns) THEN acc
    ELSE CollectNames(patterns, i + 1, text,
                      AddNames(acc, findall(patterns[i], text, IM), general), general)

found_names(text) == CollectNames(name_patterns, 1, text, <<>>, TRUE)

\* (?:นาย|...)?\s*([ก-๙a-zA-Z]+\s*[ก-๙a-zA-Z]*\.?)
RoleName ==
    Cat(<<Opt(Honorific), Star(Set(SpaceCh)),
          Grp(Cat(<<Plus(Set(NameCh)), Star(Set(SpaceCh)), Star(Set(NameCh)),
                    Opt(Lit(<<46>>))>>))>>)

transfer_to_pattern == Cat(<<Lit(<<3650, 3629, 3609, 3648, 3591, 3636, 3609, 3651, 3627, 3657>> (* "โอนเงินให้" *)), Star(Set(SpaceCh)), RoleName>>)

receiver_patterns ==
    << transfer_to_pattern,
       Cat(<<Lits(<< <<3612, 3641, 3657, 3619, 3633, 3610>> (* "ผู้รับ" *), <<84, 111>> (* "To" *), <<3652, 3611, 3618, 3633, 3591>> (* "ไปยัง" *), <<3594, 3639, 3656, 3629, 3612, 3641, 3657, 3619, 3633, 3610>> (* "ชื่อผู้รับ" *), <<82, 101, 99, 105, 112, 105, 101, 110, 116>> (* "Recipient" *),
                     <<3610, 3633, 3597, 3594, 3637, 3611, 3621, 3634, 3618, 3607, 3634, 3591>> (* "บัญชีปลายทาง" *), <<3612, 3641, 3657, 3619, 3633, 3610, 3648, 3591, 3636, 3609>> (* "ผู้รับเงิน" *), <<3611, 3621, 3634, 3618, 3607, 3634, 3591>> (* "ปลายทาง" *), <<3610, 3633, 3597, 3594, 3637, 3612, 3641, 3657, 3619, 3633, 3610>> (* "บัญชีผู้รับ" *),
                     <<3650, 3629, 3609, 3651, 3627, 3657>> (* "โอนให้" *), <<3650, 3629, 3609, 3652, 3611, 3618, 3633, 3591>> (* "โอนไปยัง" *), <<3652, 3611, 3610, 3633, 3597, 3594, 3637>> (* "ไปบัญชี" *) >>),
             Plus(Set(SepCh)), RoleName>>),
       Cat(<<Lits(<< <<3614, 3619, 3657, 3629, 3617, 3648, 3614, 3618, 3660>> (* "พร้อมเพย์" *), <<80, 114, 111, 109, 112, 116, 80, 97, 121>> (* "PromptPay" *) >>), Plus(Set(SepCh)), RoleName>>) >>

sender_patterns ==
    << Cat(<<Alt(<< Lit(<<3612, 3641, 3657, 3650, 3629, 3609>> (* "ผู้โอน" *)), Lit(<<70, 114, 111, 109>> (* "From" *)), Lit(<<3592, 3634, 3585>> (* "จาก" *)), Lit(<<3594, 3639, 3656, 3629, 3612, 3641, 3657, 3650, 3629, 3609>> (* "ชื่อผู้โอน" *)),
                    Lit(<<83, 101, 110, 100, 101, 114>> (* "Sender" *)), Lit(<<3619, 3633, 3610, 3648, 3591, 3636, 3609, 3592, 3634, 3585>> (* "รับเงินจาก" *)), Lit(<<3650, 3629, 3609, 3592, 3634, 3585>> (* "โอนจาก" *)),
                    Cat(<<Lit(<<84, 114, 97, 110, 115, 102, 101, 114>> (* "Transfer" *)), Star(Set(SpaceCh)), Lit(<<102, 114, 111, 109>> (* "from" *))>>),
                    Lit(<<3652, 3604, 3657, 3619, 3633, 3610, 3592, 3634, 3585>> (* "ได้รับจาก" *)), Lit(<<3648, 3591, 3636, 3609, 3592, 3634, 3585>> (* "เงินจาก" *)) >>),
             Plus(Set(SepCh)), RoleName>>) >>

found_receivers(text) == CollectNames(receiver_patterns, 1, text, <<>>, FALSE)

found_senders(text) == CollectNames(sender_patterns, 1, text, <<>>, FALSE)

\* ------------------------------------------------------------ amounts

\* [\d,]
AmtCh == DigitCh \cup {44}

\* [\d,]+\.?\d*
AmtToken == Cat(<<Plus(Set(AmtCh)), Opt(Lit(<<46>>)), Star(Set(DigitCh))>>)

\* (?:^|\s)
LineOrSpaceBefore == Alt(<<Bol, Set(SpaceCh)>>)

\* (?:\s|$|\n)
SpaceOrEndAfter == Alt(<<Set(SpaceCh), Eol, Lit(<<NL>>)>>)

amount_patterns ==
    << Cat(<<Lits(<< <<3592, 3635, 3609, 3623, 3609>> (* "จำนวน" *), <<65, 109, 111, 117, 110, 116>> (* "Amount" *), <<3618, 3629, 3604, 3648, 3591, 3636, 3609>> (* "ยอดเงิน" *), <<3618, 3629, 3604, 3650, 3629, 3609>> (* "ยอดโอน" *), <<3618, 3629, 3604, 3619, 3623, 3617>> (* "ยอดรวม" *),
                     <<84, 72, 66>> (* "THB" *), <<3647>> (* "฿" *), <<84, 111, 116, 97, 108>> (* "Total" *) >>),
             Star(Set(SpaceCh)), Star(Set(SepCh)), Grp(AmtToken)>>),
       Cat(<<Grp(AmtToken), Star(Set(SpaceCh)), Lits(<< <<3610, 3634, 3607>> (* "บาท" *), <<84, 72, 66>> (* "THB" *), <<3647>> (* "฿" *) >>)>>),
       Cat(<<LineOrSpaceBefore,
             Grp(Cat(<<Rep(Set(AmtCh), 4, Inf), Opt(Lit(<<46>>)), Rep(Set(DigitCh), 0, 2)>>)),
             SpaceOrEndAfter>>),
       Cat(<<LineOrSpaceBefore,
             Grp(Cat(<<Plus(Set(AmtCh)), Lit(<<46>>), Rep(Set(DigitCh), 2, 2)>>)),
             SpaceOrEndAfter>>) >>

\* the value of a decimal digit
DigitVal(c) == IF c \in ThaiDigit THEN c - 3664 ELSE c - 48

RECURSIVE DropLeadingZeros(_)
DropLeadingZeros(ds) ==
    IF ds # <<>> /\ DigitVal(ds[1]) = 0 THEN DropLeadingZeros(Tail(ds)) ELSE ds

RECURSIVE DropTrailingZeros(_)
DropTrailingZeros(ds) ==
    IF ds # <<>> /\ DigitVal(ds[Len(ds)]) = 0
    THEN DropTrailingZeros(SubSeq(ds, 1, Len(ds) - 1)) ELSE ds

RECURSIVE DigitsToNat(_)
DigitsToNat(ds) ==
    IF ds = <<>> THEN 0
    ELSE 10 * DigitsToNat(SubSeq(ds, 1, Len(ds) - 1)) + DigitVal(ds[Len(ds)])

\* 1000000000 has ten digits: a whole part of ten or more significant digits
\* is a value >= 1000000000
WholeDigitsLimit == 10
AmountLimit == 1000000000
ReasonableLimit == 10000000

\* float(amt_str) of a string of digits with at most one '.', as an exact
\* decimal: ok is FALSE where float raises ValueError (no digit at all);
\* big marks a whole part of ten or more digits; w is the whole part and f
\* the fraction digits without trailing zeros
ParseFloat(s) ==
    LET dot   == IF \E i \in 1..Len(s) : s[i] = 46
                 THEN CHOOSE i \in 1..Len(s) : s[i] = 46 ELSE Len(s) + 1
        whole == DropLeadingZeros(SubSeq(s, 1, dot - 1))
        frac  == DropTrailingZeros(SubSeq(s, dot + 1, Len(s)))
        big   == Len(whole) >= WholeDigitsLimit
    IN  [ok  |-> Len(s) - (IF dot <= Len(s) THEN 1 ELSE 0) > 0,
         big |-> big,
         w   |-> IF big THEN AmountLimit ELSE DigitsToNat(whole),
         f   |-> [i \in 1..Len(frac) |-> DigitVal(frac[i])]]

Amt(w, f) == [w |-> w, f |-> f]

\* a < b on fractions given as digit sequences without trailing zeros
RECURSIVE FracLess(_, _)
FracLess(a, b) ==
    IF b = <<>> THEN FALSE
    ELSE IF a = <<>> THEN TRUE
    ELSE IF a[1] # b[1] THEN a[1] < b[1]
    ELSE FracLess(Tail(a), Tail(b))

AmtLess(a, b) == a.w < b.w \/ (a.w = b.w /\ FracLess(a.f, b.f))

AmtLeq(a, b) == a = b \/ AmtLess(a, b)

\* faulty variant: every parsed candidate is pooled, whatever its value
RECURSIVE AddAmounts_norange(_, _)
AddAmounts_norange(acc, ms) ==
    IF ms = <<>> THEN acc
    ELSE LET v == ParseFloat(RemoveCh(ms[1], 44))
         IN  AddAmounts_norange(IF v.ok THEN Append(acc, Amt(v.w, v.f)) ELSE acc, Tail(ms))

\* for match in matches: amt_str = match.replace(',', ''); try: float ...
\* if 0 < amount < 1000000000: found_amounts.append(amount)
RECURSIVE AddAmounts(_, _)
AddAmounts(acc, ms) ==
    IF ms = <<>> THEN acc
    ELSE LET v    == ParseFloat(RemoveCh(ms[1], 44))
             keep == /\ v.ok
                     /\ ~v.big
                     /\ AmtLess(Amt(0, <<>>), Amt(v.w, v.f))
                     /\ AmtLess(Amt(v.w, v.f), Amt(AmountLimit, <<>>))
         IN  AddAmounts(IF keep THEN Append(acc, Amt(v.w, v.f)) ELSE acc, Tail(ms))

\* the matches of all the patterns, in catalog order
RECURSIVE AmountMatches(_, _)
AmountMatches(i, text) ==
    IF i > Len(amount_patterns) THEN <<>>
    ELSE findall(amount_patterns[i], text, IM) \o AmountMatches(i + 1, text)

found_amounts(text) == AddAmounts(<<>>, AmountMatches(1, text))

Range(s) == {s[i] : i \in 1..Len(s)}

MaxAmt(S) == CHOOSE a \in S : \A b \in S : AmtLeq(b, a)

MinAmt(S) == CHOOSE a \in S : \A b \in S : AmtLeq(a, b)

\* None is <<>>, a value v is <<v>>
None == <<>>
Some(v) == <<v>>

\* faulty variant: the largest candidate, whatever its size
SelectAmount_max(amounts) ==
    IF amounts = <<>> THEN None ELSE Some(MaxAmt(Range(amounts)))

\* the selection of views.py 349-356 over the pooled candidates
SelectAmount(amounts) ==
    IF amounts = <<>> THEN None
    ELSE LET reasonable_amounts ==
                 {a \in Range(amounts) : AmtLeq(a, Amt(ReasonableLimit, <<>>))}
         IN  IF reasonable_amounts # {} THEN Some(MaxAmt(reasonable_amounts))
             ELSE Some(MinAmt(Range(amounts)))

found_amount(text) == SelectAmount(found_amounts(text))

\* ------------------------------------------------------------ dates

\* [/\-\.]
DateSep == Set({47, 45, 46})

\* \d{lo,hi}
Digits(lo, hi) == Rep(Set(DigitCh), lo, hi)

\* (\d{4}|\d{2})
YearToken == Grp(Alt(<<Digits(4, 4), Digits(2, 2)>>))

\* an abbreviated Thai month, a\.?b\.?
Abbr(a, b) == Cat(<<Lit(a), Opt(Lit(<<46>>)), Lit(b), Opt(Lit(<<46>>))>>)

\* (ม\.?ค\.?|ก\.?พ\.?| ... |ธ\.?ค\.?|มกราคม| ... |ธันวาคม)
ThaiMonthToken ==
    Grp(Alt(<< Abbr(<<3617>> (* "ม" *), <<3588>> (* "ค" *)), Abbr(<<3585>> (* "ก" *), <<3614>> (* "พ" *)), Abbr(<<3617, 3637>> (* "มี" *), <<3588>> (* "ค" *)),
               Abbr(<<3648, 3617>> (* "เม" *), <<3618>> (* "ย" *)), Abbr(<<3614>> (* "พ" *), <<3588>> (* "ค" *)), Abbr(<<3617, 3636>> (* "มิ" *), <<3618>> (* "ย" *)),
               Abbr(<<3585>> (* "ก" *), <<3588>> (* "ค" *)), Abbr(<<3626>> (* "ส" *), <<3588>> (* "ค" *)), Abbr(<<3585>> (* "ก" *), <<3618>> (* "ย" *)),
               Abbr(<<3605>> (* "ต" *), <<3588>> (* "ค" *)), Abbr(<<3614>> (* "พ" *), <<3618>> (* "ย" *)), Abbr(<<3608>> (* "ธ" *), <<3588>> (* "ค" *)),
               Lit(<<3617, 3585, 3619, 3634, 3588, 3617>> (* "มกราคม" *)), Lit(<<3585, 3640, 3617, 3616, 3634, 3614, 3633, 3609, 3608, 3660>> (* "กุมภาพันธ์" *)), Lit(<<3617, 3637, 3609, 3634, 3588, 3617>> (* "มีนาคม" *)), Lit(<<3648, 3617, 3625, 3634, 3618, 3609>> (* "เมษายน" *)),
               Lit(<<3614, 3620, 3625, 3616, 3634, 3588, 3617>> (* "พฤษภาคม" *)), Lit(<<3617, 3636, 3606, 3640, 3609, 3634, 3618, 3609>> (* "มิถุนายน" *)), Lit(<<3585, 3619, 3585, 3598, 3634, 3588, 3617>> (* "กรกฎาคม" *)), Lit(<<3626, 3636, 3591, 3627, 3634, 3588, 3617>> (* "สิงหาคม" *)),
               Lit(<<3585, 3633, 3609, 3618, 3634, 3618, 3609>> (* "กันยายน" *)), Lit(<<3605, 3640, 3621, 3634, 3588, 3617>> (* "ตุลาคม" *)), Lit(<<3614, 3620, 3624, 3592, 3636, 3585, 3634, 3618, 3609>> (* "พฤศจิกายน" *)), Lit(<<3608, 3633, 3609, 3623, 3634, 3588, 3617>> (* "ธันวาคม" *)) >>))

\* (\d{1,2})\s*(<Thai month>)\s*(\d{4}|\d{2})
ThaiDate ==
    Cat(<<Grp(Digits(1, 2)), Star(Set(SpaceCh)), ThaiMonthToken, Star(Set(SpaceCh)),
          YearToken>>)

\* date_patterns (views.py 359-370), in catalog order
date_patterns ==
    << \* (\d{1,2})[/\-\.](\d{1,2})[/\-\.](\d{4})
       Cat(<<Grp(Digits(1, 2)), DateSep, Grp(Digits(1, 2)), DateSep, Grp(Digits(4, 4))>>),
       ThaiDate,
       \* (\d{1,2})\s*(Jan|Feb|...|Dec)[a-z]*\.?\s*(\d{4}|\d{2})
       Cat(<<Grp(Digits(1, 2)), Star(Set(SpaceCh)),
             Grp(Lits(<< <<74, 97, 110>> (* "Jan" *), <<70, 101, 98>> (* "Feb" *), <<77, 97, 114>> (* "Mar" *), <<65, 112, 114>> (* "Apr" *), <<77, 97, 121>> (* "May" *), <<74, 117, 110>> (* "Jun" *),
                         <<74, 117, 108>> (* "Jul" *), <<65, 117, 103>> (* "Aug" *), <<83, 101, 112>> (* "Sep" *), <<79, 99, 116>> (* "Oct" *), <<78, 111, 118>> (* "Nov" *), <<68, 101, 99>> (* "Dec" *) >>)),
             Star(Set(LatinLower)), Opt(Lit(<<46>>)), Star(Set(SpaceCh)), YearToken>>),
       \* (\d{4})-(\d{2})-(\d{2})
       Cat(<<Grp(Digits(4, 4)), Lit(<<45>>), Grp(Digits(2, 2)), Lit(<<45>>),
             Grp(Digits(2, 2))>>),
       \* วันที่\s*<ThaiDate>
       Cat(<<Lit(<<3623, 3633, 3609, 3607, 3637, 3656>> (* "วันที่" *)), Star(Set(SpaceCh)), ThaiDate>>) >>

\* thai_months (views.py 371-384): the keys of each month
thai_months ==
    << << <<3617, 46, 3588, 46>> (* "ม.ค." *), <<3617, 3588>> (* "มค" *), <<3617, 46, 3588>> (* "ม.ค" *), <<3617, 3585, 3619, 3634, 3588, 3617>> (* "มกราคม" *) >>,
       << <<3585, 46, 3614, 46>> (* "ก.พ." *), <<3585, 3614>> (* "กพ" *), <<3585, 46, 3614>> (* "ก.พ" *), <<3585, 3640, 3617, 3616, 3634, 3614, 3633, 3609, 3608, 3660>> (* "กุมภาพันธ์" *) >>,
       << <<3617, 3637, 46, 3588, 46>> (* "มี.ค." *), <<3617, 3637, 3588>> (* "มีค" *), <<3617, 3637, 46, 3588>> (* "มี.ค" *), <<3617, 3637, 3609, 3634, 3588, 3617>> (* "มีนาคม" *) >>,
       << <<3648, 3617, 46, 3618, 46>> (* "เม.ย." *), <<3648, 3617, 3618>> (* "เมย" *), <<3648, 3617, 46, 3618>> (* "เม.ย" *), <<3648, 3617, 3625, 3634, 3618, 3609>> (* "เมษายน" *) >>,
       << <<3614, 46, 3588, 46>> (* "พ.ค." *), <<3614, 3588>> (* "พค" *), <<3614, 46, 3588>> (* "พ.ค" *), <<3614, 3620, 3625, 3616, 3634, 3588, 3617>> (* "พฤษภาคม" *) >>,
       << <<3617, 3636, 46, 3618, 46>> (* "มิ.ย." *), <<3617, 3636, 3618>> (* "มิย" *), <<3617, 3636, 46, 3618>> (* "มิ.ย" *), <<3617, 3636, 3606, 3640, 3609, 3634, 3618, 3609>> (* "มิถุนายน" *) >>,
       << <<3585, 46, 3588, 46>> (* "ก.ค." *), <<3585, 3588>> (* "กค" *), <<3585, 46, 3588>> (* "ก.ค" *), <<3585, 3619, 3585, 3598, 3634, 3588, 3617>> (* "กรกฎาคม" *) >>,
       << <<3626, 46, 3588, 46>> (* "ส.ค." *), <<3626, 3588>> (* "สค" *), <<3626, 46, 3588>> (* "ส.ค" *), <<3626, 3636, 3591, 3627, 3634, 3588, 3617>> (* "สิงหาคม" *) >>,
       << <<3585, 46, 3618, 46>> (* "ก.ย." *), <<3585, 3618>> (* "กย" *), <<3585, 46, 3618>> (* "ก.ย" *), <<3585, 3633, 3609, 3618, 3634, 3618, 3609>> (* "กันยายน" *) >>,
       << <<3605, 46, 3588, 46>> (* "ต.ค." *), <<3605, 3588>> (* "ตค" *), <<3605, 46, 3588>> (* "ต.ค" *), <<3605, 3640, 3621, 3634, 3588, 3617>> (* "ตุลาคม" *) >>,
       << <<3614, 46, 3618, 46>> (* "พ.ย." *), <<3614, 3618>> (* "พย" *), <<3614, 46, 3618>> (* "พ.ย" *), <<3614, 3620, 3624, 3592, 3636, 3585, 3634, 3618, 3609>> (* "พฤศจิกายน" *) >>,
       << <<3608, 46, 3588, 46>> (* "ธ.ค." *), <<3608, 3588>> (* "ธค" *), <<3608, 46, 3588>> (* "ธ.ค" *), <<3608, 3633, 3609, 3623, 3634, 3588, 3617>> (* "ธันวาคม" *) >> >>

\* eng_months (views.py 385-388): the key of each month
eng_months ==
    << <<106, 97, 110>> (* "jan" *), <<102, 101, 98>> (* "feb" *), <<109, 97, 114>> (* "mar" *), <<97, 112, 114>> (* "apr" *), <<109, 97, 121>> (* "may" *), <<106, 117, 110>> (* "jun" *),
       <<106, 117, 108>> (* "jul" *), <<97, 117, 103>> (* "aug" *), <<115, 101, 112>> (* "sep" *), <<111, 99, 116>> (* "oct" *), <<110, 111, 118>> (* "nov" *), <<100, 101, 99>> (* "dec" *) >>

\* d.get(key) of a dict from keys to 1..Len(d), 0 for None; d[i] is the
\* sequence of the keys of i
GetMonth(d, key) ==
    LET hit == {i \in 1..Len(d) : \E j \in 1..Len(d[i]) : d[i][j] = key}
    IN  IF hit = {} THEN 0 ELSE CHOOSE i \in hit : TRUE

\* s.isdigit()
isdigit(s) == s # <<>> /\ \A i \in 1..Len(s) : s[i] \in DigitCh

\* the month of groups[1] (views.py 401-409), 0 where the code has None or 0
MonthOfKeys(group, month_str) ==
    IF GetMonth(thai_months, group) # 0 THEN GetMonth(thai_months, group)
    ELSE IF GetMonth(thai_months, month_str) # 0 THEN GetMonth(thai_months, month_str)
    ELSE IF GetMonth([i \in 1..12 |-> <<eng_months[i]>>],
                     SubSeq(month_str, 1, Min2(3, Len(month_str)))) # 0
    THEN GetMonth([i \in 1..12 |-> <<eng_months[i]>>],
                  SubSeq(month_str, 1, Min2(3, Len(month_str))))
    ELSE IF isdigit(group) THEN DigitsToNat(group)
    ELSE 0

\* month_str = groups[1].lower().replace('.', '')
MonthOf(group) == MonthOfKeys(group, RemoveCh(lower(group), 46))

BuddhistEraFrom == 2500
BuddhistEraOffset == 543
TwoDigitYears == 100
TwoDigitPivot == 50


\* the handling of Buddhist-era and two-digit years (views.py 413-422)
GregorianYear(year) ==
    IF year > BuddhistEraFrom THEN year - BuddhistEraOffset
    ELSE IF year < TwoDigitYears
    THEN IF year >= TwoDigitPivot THEN BuddhistEraFrom + year - BuddhistEraOffset
         ELSE 2000 + year
    ELSE year

MinYear == 1900
MaxYear == 2100


\* 1 <= day <= 31 and 1 <= month <= 12 and 1900 <= year <= 2100
ValidDate(day, month, year) ==
    /\ 1 <= day /\ day <= 31
    /\ 1 <= month /\ month <= 12
    /\ MinYear <= year /\ year <= MaxYear

\* str(n) of a natural number
RECURSIVE Str(_)
Str(n) == IF n < 10 THEN <<48 + n>> ELSE Str(n \div 10) \o <<48 + (n % 10)>>

\* f"{n:02d}"
Pad2(n) == IF n < 10 THEN <<48>> \o Str(n) ELSE Str(n)

\* f"{year}-{month:02d}-{day:02d}"
FormatDate(year, month, day) == Str(year) \o <<45>> \o Pad2(month) \o <<45>> \o Pad2(day)

\* what one match gives, from day, month and corrected year (views.py 411-427)
DateOfParts(day, month, year) ==
    IF month # 0 /\ ValidDate(day, month, year)
    THEN [kind |-> "date", date |-> FormatDate(year, month, day)]
    ELSE [kind |-> "none", date |-> <<>>]

\* what one match gives, from its three groups (views.py 395-427): an ISO
\* text taken as it stands, a date that ends the search, or nothing
DateOfGroups(g0, g1, g2) ==
    IF isdigit(g0) /\ Len(g0) = 4
    THEN [kind |-> "iso", date |-> g0 \o <<45>> \o g1 \o <<45>> \o g2]
    ELSE DateOfParts(DigitsToNat(g0), MonthOf(g1), GregorianYear(DigitsToNat(g2)))

\* match = re.search(pattern, text, re.IGNORECASE) and what it gives
DateOfMatch(text, m) ==
    IF m.s = 0 THEN [kind |-> "none", date |-> <<>>]
    ELSE DateOfGroups(GroupText(text, m, 1), GroupText(text, m, 2), GroupText(text, m, 3))

DateOfFirst(i, text) == DateOfMatch(text, search(date_patterns[i], text, IOnly))

\* faulty variant: the ISO date ends the search as the other dates do
DateAfter_iso_break(r, found_date) ==
    IF r.kind = "none" THEN [found_date |-> found_date, stop |-> FALSE]
    ELSE [found_date |-> Some(r.date), stop |-> TRUE]

\* found_date after a pattern, and whether the loop is left (break)
DateAfter(r, found_date) ==
    IF r.kind = "iso" THEN [found_date |-> Some(r.date), stop |-> FALSE]
    ELSE IF r.kind = "date" THEN [found_date |-> Some(r.date), stop |-> TRUE]
    ELSE [found_date |-> found_date, stop |-> FALSE]

\* for pattern in date_patterns: ... (views.py 390-429)
RECURSIVE DateLoop(_, _, _)
DateNext(i, text, after) ==
    IF after.stop THEN after.found_date ELSE DateLoop(i + 1, text, after.found_date)

DateLoop(i, text, found_date) ==
    IF i > Len(date_patterns) THEN found_date
    ELSE DateNext(i, text, DateAfter(DateOfFirst(i, text), found_date))

found_date(text) == DateLoop(1, text, None)

\* ------------------------------------------------------------ time

Colon == 58

\* \d{1,2}:\d{2}
HourMinute == Cat(<<Digits(1, 2), Lit(<<Colon>>), Digits(2, 2)>>)

\* time_patterns of extract_time (views.py 723-734)
time_patterns ==
    << \* (\d{1,2}:\d{2}:\d{2})
       Grp(Cat(<<HourMinute, Lit(<<Colon>>), Digits(2, 2)>>)),
       \* (\d{1,2}:\d{2})\s*(?:น\.|น|AM|PM|$)
       Cat(<<Grp(HourMinute), Star(Set(SpaceCh)),
             Alt(<<Lit(<<3609, 46>> (* "น." *)), Lit(<<3609>> (* "น" *)), Lit(<<65, 77>> (* "AM" *)), Lit(<<80, 77>> (* "PM" *)), Eol>>)>>),
       \* เวลา\s*(\d{1,2}:\d{2})
       Cat(<<Lit(<<3648, 3623, 3621, 3634>> (* "เวลา" *)), Star(Set(SpaceCh)), Grp(HourMinute)>>),
       \* ,\s*(\d{1,2}:\d{2})
       Cat(<<Lit(<<44>> (* "," *)), Star(Set(SpaceCh)), Grp(HourMinute)>>),
       \* (?:\d{1,2}[/\-\.]\d{1,2}[/\-\.]\d{2,4})[,\s]+(\d{1,2}:\d{2})
       Cat(<<Digits(1, 2), DateSep, Digits(1, 2), DateSep, Digits(2, 4),
             Plus(Set({44} \cup SpaceCh)), Grp(HourMinute)>>) >>

\* the position of the first ':' of s
ColonAt(s) == CHOOSE i \in 1..Len(s) : s[i] = Colon /\ \A j \in 1..(i - 1) : s[j] # Colon

\* parts = time_str.split(':'); hour = int(parts[0]), minute = int(parts[1]):
\* the pattern puts exactly two digits after the first ':'
HourOf(time_str) == DigitsToNat(SubSeq(time_str, 1, ColonAt(time_str) - 1))
MinuteOf(time_str) == DigitsToNat(SubSeq(time_str, ColonAt(time_str) + 1, ColonAt(time_str) + 2))

MaxHour == 23
MaxMinute == 59

\* faulty variant: the hour is not checked
ValidTime_anyhour(hour, minute) == minute <= MaxMinute

\* if 0 <= hour <= 23 and 0 <= minute <= 59
ValidTime(hour, minute) == hour <= MaxHour /\ minute <= MaxMinute

\* f"{hour:02d}:{minute:02d}"
FormatTime(hour, minute) == Pad2(hour) \o <<Colon>> \o Pad2(minute)

\* what time_str gives
TimeOfParts(hour, minute) ==
    IF ValidTime(hour, minute)
    THEN [valid |-> TRUE, time |-> FormatTime(hour, minute)]
    ELSE [valid |-> FALSE, time |-> <<>>]

\* what the match of one pattern gives
TimeOfMatch(text, m) ==
    IF m.s = 0 THEN [valid |-> FALSE, time |-> <<>>]
    ELSE TimeOfParts(HourOf(GroupText(text, m, 1)), MinuteOf(GroupText(text, m, 1)))

\* match = re.search(pattern, text)
TimeOfFirst(i, text) == TimeOfMatch(text, search(time_patterns[i], text, NoFlags))

\* for pattern in time_patterns: ... return at the first valid time
RECURSIVE TimeLoop(_, _)
TimeNext(i, text, r) == IF r.valid THEN Some(r.time) ELSE TimeLoop(i + 1, text)
TimeLoop(i, text) ==
    IF i > Len(time_patterns) THEN None ELSE TimeNext(i, text, TimeOfFirst(i, text))

extract_time(text) == TimeLoop(1, text)

\* ------------------------------------------------------------ title

\* \s*
Sp == Star(Set(SpaceCh))

\* [ก-๙a-zA-Z\s]+
TitleWords == Plus(Set(NameCh \cup SpaceCh))

\* title_patterns of extract_transaction_title (views.py 690-709)
title_patterns ==
    << Grp(Lit(<<3648, 3605, 3636, 3617, 3648, 3591, 3636, 3609, 3626, 3635, 3648, 3619, 3655, 3592>> (* "เติมเงินสำเร็จ" *))),
       Grp(Lit(<<3650, 3629, 3609, 3648, 3591, 3636, 3609, 3626, 3635, 3648, 3619, 3655, 3592>> (* "โอนเงินสำเร็จ" *))),
       Grp(Lit(<<3619, 3634, 3618, 3585, 3634, 3619, 3626, 3635, 3648, 3619, 3655, 3592>> (* "รายการสำเร็จ" *))),
       Grp(Lit(<<3594, 3635, 3619, 3632, 3648, 3591, 3636, 3609, 3626, 3635, 3648, 3619, 3655, 3592>> (* "ชำระเงินสำเร็จ" *))),
       Grp(Lit(<<3619, 3633, 3610, 3648, 3591, 3636, 3609, 3626, 3635, 3648, 3619, 3655, 3592>> (* "รับเงินสำเร็จ" *))),
       Grp(Lit(<<3606, 3629, 3609, 3648, 3591, 3636, 3609, 3626, 3635, 3648, 3619, 3655, 3592>> (* "ถอนเงินสำเร็จ" *))),
       Grp(Lit(<<3592, 3656, 3634, 3618, 3610, 3636, 3621, 3626, 3635, 3648, 3619, 3655, 3592>> (* "จ่ายบิลสำเร็จ" *))),
       Grp(Lit(<<3648, 3605, 3636, 3617, 3648, 3591, 3636, 3609, 3614, 3619, 3657, 3629, 3617, 3648, 3614, 3618, 3660>> (* "เติมเงินพร้อมเพย์" *))),
       \* (Scan\s*to\s*pay\s*สำเร็จ)
       Grp(Cat(<<Lit(<<83, 99, 97, 110>> (* "Scan" *)), Sp, Lit(<<116, 111>> (* "to" *)), Sp, Lit(<<112, 97, 121>> (* "pay" *)), Sp, Lit(<<3626, 3635, 3648, 3619, 3655, 3592>> (* "สำเร็จ" *))>>)),
       Grp(Cat(<<Lit(<<84, 114, 97, 110, 115, 102, 101, 114>> (* "Transfer" *)), Sp, Lit(<<115, 117, 99, 99, 101, 115, 115, 102, 117, 108>> (* "successful" *))>>)),
       Grp(Cat(<<Lit(<<80, 97, 121, 109, 101, 110, 116>> (* "Payment" *)), Sp, Lit(<<115, 117, 99, 99, 101, 115, 115, 102, 117, 108>> (* "successful" *))>>)),
       Grp(Cat(<<Lit(<<84, 114, 97, 110, 115, 97, 99, 116, 105, 111, 110>> (* "Transaction" *)), Sp, Lit(<<115, 117, 99, 99, 101, 115, 115, 102, 117, 108>> (* "successful" *))>>)),
       \* ([ก-๙a-zA-Z\s]+สำเร็จ)
       Grp(Cat(<<TitleWords, Lit(<<3626, 3635, 3648, 3619, 3655, 3592>> (* "สำเร็จ" *))>>)),
       \* (โอนเงินให้\s*[ก-๙a-zA-Z\s]+)
       Grp(Cat(<<Lit(<<3650, 3629, 3609, 3648, 3591, 3636, 3609, 3651, 3627, 3657>> (* "โอนเงินให้" *)), Sp, TitleWords>>)) >>

TitleLimit == 30

Ellipsis == <<46, 46, 46>> (* "..." *)

\* faulty variant: the title is cut after the marker is added
shorten_after(title) ==
    IF Len(title) > TitleLimit THEN SubSeq(title \o Ellipsis, 1, TitleLimit) ELSE title

\* if len(title) > 30: title = title[:30] + '...'
shorten(title) ==
    IF Len(title) > TitleLimit THEN SubSeq(title, 1, TitleLimit) \o Ellipsis ELSE title

\* title = match.group(1).strip(), shortened
TitleOfMatch(text, m) == shorten(strip(GroupText(text, m, 1)))

\* for pattern in title_patterns: the first pattern that matches gives the title
RECURSIVE TitleLoop(_, _)
TitleNext(i, text, m) == IF m.s # 0 THEN Some(TitleOfMatch(text, m)) ELSE TitleLoop(i + 1, text)
TitleLoop(i, text) ==
    IF i > Len(title_patterns) THEN None
    ELSE TitleNext(i, text, search(title_patterns[i], text, IOnly))

extract_transaction_title(text) == TitleLoop(1, text)

\* ------------------------------------------------------------ type keywords

\* type_keywords (views.py 478-481), in dict order
type_keywords ==
    << [type |-> "income",
        keywords |-> << <<3619, 3633, 3610, 3648, 3591, 3636, 3609>> (* "รับเงิน" *), <<3619, 3633, 3610, 3650, 3629, 3609>> (* "รับโอน" *), <<3648, 3591, 3636, 3609, 3648, 3586, 3657, 3634>> (* "เงินเข้า" *), <<82, 101, 99, 101, 105, 118, 101, 100>> (* "Received" *), <<3652, 3604, 3657, 3619, 3633, 3610>> (* "ได้รับ" *),
                        <<73, 110, 99, 111, 109, 101>> (* "Income" *), <<3648, 3586, 3657, 3634, 3610, 3633, 3597, 3594, 3637>> (* "เข้าบัญชี" *), <<68, 101, 112, 111, 115, 105, 116>> (* "Deposit" *), <<3619, 3633, 3610, 3592, 3634, 3585>> (* "รับจาก" *) >>],
       [type |-> "expense",
        keywords |-> << <<3592, 3656, 3634, 3618, 3648, 3591, 3636, 3609>> (* "จ่ายเงิน" *), <<3594, 3635, 3619, 3632>> (* "ชำระ" *), <<80, 97, 121, 109, 101, 110, 116>> (* "Payment" *), <<80, 97, 105, 100>> (* "Paid" *), <<3606, 3629, 3609>> (* "ถอน" *),
                        <<3629, 3629, 3585, 3592, 3634, 3585, 3610, 3633, 3597, 3594, 3637>> (* "ออกจากบัญชี" *), <<87, 105, 116, 104, 100, 114, 97, 119, 97, 108>> (* "Withdrawal" *), <<3592, 3656, 3634, 3618>> (* "จ่าย" *), <<3594, 3635, 3619, 3632, 3648, 3591, 3636, 3609>> (* "ชำระเงิน" *) >>] >>

\* the first type, in dict order, one of whose keywords occurs in the text;
\* "None" when no keyword occurs
detected_type(text) ==
    LET text_lower == lower(text)
        hit(i) == \E j \in 1..Len(type_keywords[i].keywords) :
                     Contains(text_lower, lower(type_keywords[i].keywords[j]))
    IN  IF hit(1) THEN type_keywords[1].type
        ELSE IF hit(2) THEN type_keywords[2].type
        ELSE "None"

\* ------------------------------------------------------------ name matching

\* (นาย|นาง|นางสาว|น\.?ส\.?|Mr|Mrs|Ms)\.?\s*
NormHonorific ==
    Cat(<<Alt(<< Lit(<<3609, 3634, 3618>> (* "นาย" *)), Lit(<<3609, 3634, 3591>> (* "นาง" *)), Lit(<<3609, 3634, 3591, 3626, 3634, 3623>> (* "นางสาว" *)),
                 Cat(<<Lit(<<3609>> (* "น" *)), Opt(Lit(<<46>>)), Lit(<<3626>> (* "ส" *)), Opt(Lit(<<46>>))>>),
                 Lit(<<77, 114>> (* "Mr" *)), Lit(<<77, 114, 115>> (* "Mrs" *)), Lit(<<77, 115>> (* "Ms" *)) >>),
          Opt(Lit(<<46>>)), Star(Set(SpaceCh))>>)

normalize(s) ==
    IF s = <<>> THEN <<>>
    ELSE LET s1  == strip(RemoveCh(s, 46))
             res == Match(NormHonorific, s1, [p |-> 1, g |-> <<>>], IOnly)
             s2  == IF res = <<>> THEN s1 ELSE SubSeq(s1, res[1].p, Len(s1))
         IN  JoinSp(split(lower(s2)))

\* difflib.SequenceMatcher(None, a, b): no junk, and autojunk only acts on
\* sequences of 200 or more elements

\* the length of the common run of a[i..ahi] and b[j..bhi]
RECURSIVE RunLen(_, _, _, _, _, _)
RunLen(a, b, i, j, ahi, bhi) ==
    IF i > ahi \/ j > bhi \/ a[i] # b[j] THEN 0
    ELSE 1 + RunLen(a, b, i + 1, j + 1, ahi, bhi)

\* find_longest_match: the longest block; of these the earliest in a; of
\* these the earliest in b.  Positions alo..ahi and blo..bhi, inclusive.
find_longest_match(a, b, alo, ahi, blo, bhi) ==
    LET run  == [i \in alo..ahi, j \in blo..bhi |-> RunLen(a, b, i, j, ahi, bhi)]
        lens == {run[i, j] : i \in alo..ahi, j \in blo..bhi}
        k    == IF lens = {} THEN 0 ELSE CHOOSE x \in lens : \A y \in lens : y <= x
    IN  IF k = 0 THEN [i |-> alo, j |-> blo, k |-> 0]
        ELSE LET besti == CHOOSE i \in alo..ahi :
                             /\ \E j \in blo..bhi : run[i, j] = k
                             /\ \A i2 \in alo..(i - 1) : \A j \in blo..bhi : run[i2, j] # k
                 bestj == CHOOSE j \in blo..bhi :
                             /\ run[besti, j] = k
                             /\ \A j2 \in blo..(j - 1) : run[besti, j2] # k
             IN  [i |-> besti, j |-> bestj, k |-> k]

\* the total size of get_matching_blocks(): the longest block, then the
\* blocks to its left and to its right
RECURSIVE MatchingSize(_, _, _, _, _, _)
MatchingSize(a, b, alo, ahi, blo, bhi) ==
    IF alo > ahi \/ blo > bhi THEN 0
    ELSE LET m == find_longest_match(a, b, alo, ahi, blo, bhi)
         IN  IF m.k = 0 THEN 0
             ELSE m.k + MatchingSize(a, b, alo, m.i - 1, blo, m.j - 1)
                      + MatchingSize(a, b, m.i + m.k, ahi, m.j + m.k, bhi)

\* ratio() = 2.0 * matches / (len(a) + len(b)), 1.0 for two empty sequences.
\* RatioAtLeast(a, b, pct): similarity_ratio(a, b) >= pct / 100
RatioAtLeast(a, b, pct) ==
    IF Len(a) + Len(b) = 0 THEN TRUE
    ELSE 200 * MatchingSize(a, b, 1, Len(a), 1, Len(b)) >= pct * (Len(a) + Len(b))

FullSimilarityPct == 85
LastSimilarityPct == 80
MaxAbbrevLen == 2
MinPrefixLen == 2

\* Case 1 to Case 5 of check_name_match (views.py 538-570) on the normalized
\* names and the first two words of the candidate: <<is_match, is_full_name>>
name_match_cases(slip_norm, slip_first, slip_last, user_first_norm, user_last_norm, user_full_norm) ==
    IF slip_norm = user_full_norm THEN <<TRUE, TRUE>>
    ELSE IF RatioAtLeast(slip_norm, user_full_norm, FullSimilarityPct)
         THEN <<TRUE, TRUE>>
    ELSE IF slip_first = user_first_norm /\ slip_last = user_last_norm
         THEN <<TRUE, TRUE>>
    ELSE IF slip_first = user_first_norm THEN
         IF slip_last = <<>> THEN <<TRUE, FALSE>>
         ELSE IF Len(slip_last) <= MaxAbbrevLen THEN <<TRUE, FALSE>>
         ELSE IF user_last_norm # <<>> /\ slip_last # user_last_norm THEN
              IF startswith(user_last_norm, slip_last) \/ endswith(slip_last, <<46>>)
              THEN <<TRUE, FALSE>>
              ELSE IF RatioAtLeast(slip_last, user_last_norm, LastSimilarityPct)
                   THEN <<TRUE, TRUE>>
              ELSE <<TRUE, FALSE>>
         ELSE <<TRUE, TRUE>>
    ELSE IF startswith(user_first_norm, slip_first) /\ Len(slip_first) >= MinPrefixLen
         THEN <<TRUE, FALSE>>
    ELSE <<FALSE, FALSE>>

\* slip_parts[i] if len(slip_parts) > i else ''
Part(slip_parts, i) == IF Len(slip_parts) >= i THEN slip_parts[i] ELSE <<>>

\* views.py 529-536: the words of the candidate, and the user's full name
name_match_parts(slip_norm, user_first_norm, user_last_norm) ==
    IF split(slip_norm) = <<>> THEN <<FALSE, FALSE>>
    ELSE name_match_cases(slip_norm, Part(split(slip_norm), 1), Part(split(slip_norm), 2),
                          user_first_norm, user_last_norm,
                          strip(user_first_norm \o <<32>> \o user_last_norm))

\* views.py 526-528: the normalized names
name_match_normalized(slip_name, user_first, user_last) ==
    name_match_parts(normalize(slip_name), normalize(user_first),
                     IF user_last # <<>> THEN normalize(user_last) ELSE <<>>)

\* faulty variant: check_name_match without its guard on an empty user first name
check_name_match_noguard(slip_name, user_first, user_last) ==
    IF slip_name = <<>> THEN <<FALSE, FALSE>>
    ELSE name_match_normalized(slip_name, user_first, user_last)

\* check_name_match: <<is_match, is_full_name>>
check_name_match(slip_name, user_first, user_last) ==
    IF slip_name = <<>> \/ user_first = <<>> THEN <<FALSE, FALSE>>
    ELSE name_match_normalized(slip_name, user_first, user_last)

\* ------------------------------------------------------------ classifier

First(s) == IF s = <<>> THEN <<>> ELSE s[1]

IsMatch(n, user) == check_name_match(n, user.first_name, user.last_name)[1]

IsFull(n, user) == check_name_match(n, user.first_name, user.last_name)[2]

\* the entry of all_names for one candidate, given its check_name_match
Tagged(name, source, matched) ==
    IF matched[1]
    THEN << [name |-> name, is_full |-> matched[2], source |-> source] >>
    ELSE <<>>

\* for name in pool: is_match, is_full = check_name_match(...);
\* if is_match: all_names.append(...)
RECURSIVE TagMatches(_, _, _)
TagMatches(pool, source, user) ==
    IF pool = <<>> THEN <<>>
    ELSE Tagged(pool[1], source,
                check_name_match(pool[1], user.first_name, user.last_name))
         \o TagMatches(Tail(pool), source, user)

\* all_names: the matching candidates of the receiver, the sender and the
\* general list, in that order (views.py 582-594)
all_names(receivers, senders, names, user) ==
    TagMatches(receivers, "receiver", user) \o TagMatches(senders, "sender", user)
    \o TagMatches(names, "general", user)

\* [n for n in pool if not check_name_match(n, ...)[0]]
other_names(pool, user) == SelectSeq(pool, LAMBDA n : ~IsMatch(n, user))

\* f"{first} {last}".strip()
FullName(user) == strip(user.first_name \o <<32>> \o user.last_name)

\* the values set when the user's name is found (views.py 603-620)
Matched(type, confidence, detail, account_name) ==
    [suggested_type   |-> type,
     type_confidence  |-> confidence,
     match_status     |-> "True",
     match_confidence |-> "None",
     match_detail     |-> detail,
     suggested_account_name |-> account_name]

\* the values set when the user's name is not found (views.py 624-643)
Unmatched(type, confidence, receivers, senders, names) ==
    [suggested_type   |-> type,
     type_confidence  |-> confidence,
     match_status     |-> "False",
     match_confidence |-> "no_match",
     match_detail     |->
         IF First(senders) # <<>> THEN <<"sender", First(senders)>>
         ELSE IF First(receivers) # <<>> THEN <<"receiver", First(receivers)>>
         ELSE IF names # <<>> THEN <<"name", names[1]>>
         ELSE <<"no_name", <<>> >>,
     suggested_account_name |->
         IF First(senders) # <<>> THEN First(senders)
         ELSE IF First(receivers) # <<>> THEN First(receivers)
         ELSE IF names # <<>> THEN names[1]
         ELSE <<>>]

\* faulty variant: the user's name in the receiver list counts as a full
\* name (the user is the receiver)
FirstFull_receiver(matches) ==
    SelectSeq(matches, LAMBDA n : n.is_full \/ n.source = "receiver")

\* next((n for n in all_names if n['is_full']), None), as a sequence of at
\* most one element
FirstFull(matches) == SelectSeq(matches, LAMBDA n : n.is_full)

\* other_names[0] if other_names else fallback
FirstOr(others, fallback) == IF others # <<>> THEN others[1] ELSE fallback

\* faulty variant: the expense case looks for the counterparty in the sender
\* list as well
classify_matches_pooled(matches, fulls, receivers, senders, names, user) ==
    IF matches = <<>>
    THEN Unmatched("expense", "uncertain", receivers, senders, names)
    ELSE IF fulls # <<>>
    THEN Matched("income", "full_name_match", <<"full_name", fulls[1].name>>,
                 FirstOr(other_names(names \o senders \o receivers, user),
                         FullName(user)))
    ELSE Matched("expense", "abbreviated_name_match",
                 <<"abbreviated_name", matches[1].name>>,
                 FirstOr(other_names(names \o senders \o receivers, user),
                         First(receivers)))

\* views.py 596-643 on all_names and full_name_match
classify_matches(matches, fulls, receivers, senders, names, user) ==
    IF matches = <<>>
    THEN Unmatched("expense", "uncertain", receivers, senders, names)
    ELSE IF fulls # <<>>
    THEN Matched("income", "full_name_match", <<"full_name", fulls[1].name>>,
                 FirstOr(other_names(names \o senders \o receivers, user),
                         FullName(user)))
    ELSE Matched("expense", "abbreviated_name_match",
                 <<"abbreviated_name", matches[1].name>>,
                 FirstOr(other_names(names \o receivers, user), First(receivers)))

\* the same with any match taken for income
classify_matches_income(matches, receivers, senders, names, user) ==
    IF matches = <<>>
    THEN Unmatched("expense", "uncertain", receivers, senders, names)
    ELSE Matched("income", "full_name_match", <<"full_name", matches[1].name>>,
                 FirstOr(other_names(names \o senders \o receivers, user),
                         FullName(user)))

\* the same with the values set before the comparison left where no name
\* matches
classify_matches_no_default(matches, fulls, receivers, senders, names, user) ==
    IF matches = <<>>
    THEN Unmatched("expense", "unknown", receivers, senders, names)
    ELSE classify_matches(matches, fulls, receivers, senders, names, user)

\* the all_names of a pool cut after its first element
Head1(matches) == SubSeq(matches, 1, 1)

\* faulty variant: the first matching candidate decides (any_match in place of
\* full_name_match)
classify_first_match(receivers, senders, names, user) ==
    classify_matches(all_names(receivers, senders, names, user),
                     FirstFull(Head1(all_names(receivers, senders, names, user))),
                     receivers, senders, names, user)

\* faulty variant: any match of the user's name is income
classify_any_match_income(receivers, senders, names, user) ==
    classify_matches_income(all_names(receivers, senders, names, user),
                            receivers, senders, names, user)

\* faulty variant: without a match the values set before the comparison stay
classify_no_default(receivers, senders, names, user) ==
    classify_matches_no_default(all_names(receivers, senders, names, user),
                                FirstFull(all_names(receivers, senders, names, user)),
                                receivers, senders, names, user)

\* the name-based classification of an authenticated user (views.py 572-643)
classify(receivers, senders, names, user) ==
    classify_matches(all_names(receivers, senders, names, user),
                     FirstFull(all_names(receivers, senders, names, user)),
                     receivers, senders, names, user)

\* the values before the name comparison (views.py 482-503): the
\* classification when request.user is not authenticated
keyword_classification(text) ==
    LET dt == detected_type(text)
    IN  [suggested_type   |-> IF dt # "None" THEN dt ELSE "expense",
         type_confidence  |-> IF dt # "None" THEN "keyword" ELSE "unknown",
         match_status     |-> "None",
         match_confidence |-> "None",
         match_detail     |-> <<"None", <<>> >>,
         suggested_account_name |-> <<>>]

\* ------------------------------------------------------------ assembler

\* faulty variant: the suggested type survives a missing amount
assemble_keep_type(amount, names, receivers, senders, c) ==
    IF amount = None
    THEN [type_warning |-> "no_amount", is_valid_slip |-> FALSE, type |-> c.suggested_type]
    ELSE IF c.type_confidence = "uncertain"
    THEN [type_warning |-> "choose_type", is_valid_slip |-> TRUE, type |-> c.suggested_type]
    ELSE [type_warning |-> "None", is_valid_slip |-> TRUE, type |-> c.suggested_type]

\* faulty variant: the uncertain classification is looked at before the amount
assemble_type_first(amount, names, receivers, senders, c) ==
    IF amount = None /\ names = <<>> /\ receivers = <<>> /\ senders = <<>>
    THEN [type_warning |-> "no_slip_data", is_valid_slip |-> FALSE, type |-> "None"]
    ELSE IF c.type_confidence = "uncertain"
    THEN [type_warning |-> "choose_type", is_valid_slip |-> TRUE, type |-> c.suggested_type]
    ELSE IF amount = None
    THEN [type_warning |-> "no_amount", is_valid_slip |-> FALSE, type |-> "None"]
    ELSE IF c.match_status # "True"
    THEN [type_warning |-> "verify_type", is_valid_slip |-> TRUE, type |-> c.suggested_type]
    ELSE [type_warning |-> "None", is_valid_slip |-> TRUE, type |-> c.suggested_type]

\* faulty variant: names make up for a missing amount
assemble_names_valid(amount, names, receivers, senders, c) ==
    IF amount = None /\ names = <<>> /\ receivers = <<>> /\ senders = <<>>
    THEN [type_warning |-> "no_slip_data", is_valid_slip |-> FALSE, type |-> "None"]
    ELSE IF amount = None
    THEN [type_warning |-> "no_amount", is_valid_slip |-> TRUE, type |-> "None"]
    ELSE IF c.type_confidence = "uncertain"
    THEN [type_warning |-> "choose_type", is_valid_slip |-> TRUE, type |-> c.suggested_type]
    ELSE IF c.match_status # "True"
    THEN [type_warning |-> "verify_type", is_valid_slip |-> TRUE, type |-> c.suggested_type]
    ELSE [type_warning |-> "None", is_valid_slip |-> TRUE, type |-> c.suggested_type]

\* type_warning, is_valid_slip and the final suggested_type (views.py
\* 645-661).  The warnings are
\*   no_slip_data: 'ไม่พบข้อมูลสลิป อาจไม่ใช่รูปสลิปโอนเงิน'
\*   no_amount:    'ไม่พบจำนวนเงินในรูป กรุณากรอกข้อมูลเอง'
\*   choose_type:  'ไม่พบชื่อผู้ใช้ในสลิป กรุณาเลือกประเภทรายการเอง'
\*   verify_type:  'ไม่พบชื่อผู้ใช้ในสลิป กรุณาตรวจสอบประเภทรายการ'
assemble(amount, names, receivers, senders, c) ==
    IF amount = None /\ names = <<>> /\ receivers = <<>> /\ senders = <<>>
    THEN [type_warning |-> "no_slip_data", is_valid_slip |-> FALSE, type |-> "None"]
    ELSE IF amount = None
    THEN [type_warning |-> "no_amount", is_valid_slip |-> FALSE, type |-> "None"]
    ELSE IF c.type_confidence = "uncertain"
    THEN [type_warning |-> "choose_type", is_valid_slip |-> TRUE, type |-> c.suggested_type]
    ELSE IF c.match_status # "True"
    THEN [type_warning |-> "verify_type", is_valid_slip |-> TRUE, type |-> c.suggested_type]
    ELSE [type_warning |-> "None", is_valid_slip |-> TRUE, type |-> c.suggested_type]

\* ------------------------------------------------------------ ocr handler

\* faulty variant: what a failed call had received is kept
RecognizedText_keep(ocr) == ocr.text

\* the text the OCR.space call leaves in `text` (views.py 178-222)
RecognizedText(ocr) == IF ocr.kind = "parsed" THEN ocr.text ELSE <<>>

\* the 400 response of the plausibility filter (views.py 251-258)
not_a_slip(raw_text, count) ==
    [status             |-> 400,
     is_valid_slip      |-> FALSE,
     text               |-> raw_text,
     slip_keyword_count |-> count,
     extracted          |-> None]

\* the 200 response (views.py 663-686); transaction_title, date and time are
\* left out
ocr_result(text, names, receivers, senders, amount, user, c, w) ==
    [status           |-> 200,
     text             |-> text,
     found_names      |-> names,
     found_receivers  |-> receivers,
     found_senders    |-> senders,
     user_fullname    |-> IF user.is_authenticated THEN Some(FullName(user)) ELSE None,
     match            |-> c.match_status,
     match_detail     |-> c.match_detail,
     match_confidence |-> c.match_confidence,
     is_valid_slip    |-> w.is_valid_slip,
     extracted        |-> Some(
         [account_name    |-> c.suggested_account_name,
          receiver_name   |-> First(receivers),
          sender_name     |-> First(senders),
          amount          |-> amount,
          type            |-> w.type,
          type_confidence |-> c.type_confidence,
          type_warning    |-> w.type_warning])]

\* views.py 645-686: the warning, then the response
ocr_assemble(text, names, receivers, senders, amount, user, c) ==
    ocr_result(text, names, receivers, senders, amount, user, c,
               assemble(amount, names, receivers, senders, c))

\* faulty variant: the values from the keywords stay where no name matches
ocr_classify_keywords(text, names, receivers, senders, amount, user) ==
    ocr_assemble(text, names, receivers, senders, amount, user,
                 IF user.is_authenticated /\ all_names(receivers, senders, names, user) # <<>>
                 THEN classify(receivers, senders, names, user)
                 ELSE keyword_classification(text))

\* views.py 476-643: the classification of the extracted fields
ocr_classify(text, names, receivers, senders, amount, user) ==
    ocr_assemble(text, names, receivers, senders, amount, user,
                 IF user.is_authenticated
                 THEN classify(receivers, senders, names, user)
                 ELSE keyword_classification(text))

\* views.py 275-470: the extraction of the fields from the normalized text
ocr_extract(text, user) ==
    ocr_classify(text, found_names(text), found_receivers(text), found_senders(text),
                 found_amount(text), user)

\* SlipViewSet.ocr from the plausibility filter on (views.py 228-686)
ocr_response(raw_text, user) ==
    IF ~is_likely_slip(raw_text)
    THEN not_a_slip(raw_text, slip_keyword_count(raw_text))
    ELSE ocr_extract(fix_ocr_common(raw_text), user)

\* ------------------------------------------------------------ bulk upload

\* SlipSerializer(data=data).is_valid(): the fields the files share are
\* valid and the file is an image
is_valid(data, file) == data.valid /\ file.ok

\* user_fullname = f"{user.first_name} {user.last_name}".strip().lower()
user_fullname(user) == lower(FullName(user))

\* the type after views.py 115-118: income when the account name is the
\* user's full name
slip_type(data, user) ==
    IF data.account_name # <<>> /\ lower(strip(data.account_name)) = user_fullname(user)
    THEN "income" ELSE data.type

\* slip = serializer.save(user=request.user): the row with the next id
Slip(id, data, file, user) ==
    [id |-> id, user |-> user, account_name |-> data.account_name,
     image |-> file.name, type |-> slip_type(data, user)]

\* SlipSerializer(slip).data
SlipData(slip) ==
    [id |-> slip.id, account_name |-> slip.account_name, image |-> slip.image,
     type |-> slip.type]

\* faulty variant: a file that is not valid is passed over
bulk_file_silent(file, data, user, st) ==
    IF is_valid(data, file)
    THEN [slips   |-> Append(st.slips, Slip(Len(st.slips) + 1, data, file, user)),
          created |-> Append(st.created, SlipData(Slip(Len(st.slips) + 1, data, file, user))),
          errors  |-> st.errors]
    ELSE st

\* the body of the loop (views.py 104-121)
bulk_file(file, data, user, st) ==
    IF is_valid(data, file)
    THEN [slips   |-> Append(st.slips, Slip(Len(st.slips) + 1, data, file, user)),
          created |-> Append(st.created, SlipData(Slip(Len(st.slips) + 1, data, file, user))),
          errors  |-> st.errors]
    ELSE [st EXCEPT !.errors = Append(st.errors, [filename |-> file.name])]

\* for file in files (views.py 103-121)
RECURSIVE bulk_loop(_, _, _, _, _)
bulk_loop(files, i, data, user, st) ==
    IF i > Len(files) THEN st
    ELSE bulk_loop(files, i + 1, data, user, bulk_file(files[i], data, user, st))

\* bulk_upload with files (views.py 99-122)
bulk_upload(files, data, user, table) ==
    bulk_loop(files, 1, data, user, [slips |-> table, created |-> <<>>, errors |-> <<>>])

\* Response({'created': created_slips, 'errors': errors})
bulk_response(st) == [status |-> 200, created |-> st.created, errors |-> st.errors]

\* ------------------------------------------------------------ tokens

\* a cookie that is not set
NoToken == [kind |-> "none"]

\* RefreshToken.for_user(user): a new token with its own jti; `epoch` counts
\* the password changes of the user before the token was issued (with
\* CHECK_REVOKE_TOKEN the token carries a hash of the password)
RefreshTokenFor(row, id, jti) ==
    [kind |-> "refresh", user |-> id, jti |-> jti, epoch |-> row.changes]

\* refresh.access_token: the claims of the refresh token are copied
AccessTokenOf(refresh) ==
    [kind |-> "access", user |-> refresh.user, epoch |-> refresh.epoch]

\* RefreshToken(refresh_token) does not raise: the token is a refresh token
\* and, where the blacklist app is installed, is not blacklisted
RefreshTokenVerifies(token, tokens, conf) ==
    /\ token.kind = "refresh"
    /\ ~(conf.BLACKLIST /\ token.jti \in tokens.blacklist)

\* token.blacklist(): recorded where the blacklist app is installed, an
\* exception that the callers swallow where it is not
Blacklisted(token, tokens, conf) ==
    IF conf.BLACKLIST
    THEN [tokens EXCEPT !.blacklist = @ \cup {token.jti}]
    ELSE tokens

\* CookieJWTAuthentication.authenticate on the access_token cookie: the id of
\* the user, 0 where the request is not authenticated
authenticate(token, table, conf) ==
    IF token.kind # "access" THEN 0
    ELSE IF ~table[token.user].exists \/ ~table[token.user].is_active THEN 0
    ELSE IF conf.CHECK_REVOKE_TOKEN /\ token.epoch # table[token.user].changes THEN 0
    ELSE token.user

\* ------------------------------------------------------------ state

VARIABLES
    request,    \* the request being served (POST slips/ocr/ or slips/bulk_upload/)
    response,   \* its response
    fn,         \* the last application of one of the extractor functions
    slips,      \* the rows of the Slip table, in the order of their ids
    auth_user,  \* the rows of the User table, by id
    cookies,    \* the cookie jar of every client (browser)
    jwt,        \* the refresh tokens issued and the token blacklist
    settings,   \* the SIMPLE_JWT settings of the deployment
    calls       \* the admin requests being served, by admin

vars == <<request, response, fn, slips, auth_user, cookies, jwt, settings, calls>>

\* the state of the accounts, sessions and admin requests
accounts == <<auth_user, cookies, jwt, settings, calls>>

NoRequest == [kind |-> "none"]
NoResponse == [status |-> 0]
NoCall == [op |-> "none"]

\* the requests one user sends
MaxRequests == 1

\* no request of the user is being served, after n of them
Waiting(n) == [op |-> "none", sent |-> n]

\* ------------------------------------------------------------ inputs

MaxNameLines == 2
MaxAmountLines == 2
MaxNameLen == 5

\* the sequences of at most n elements of the sequence vocab
RECURSIVE SeqsUpTo(_, _)
SeqsUpTo(vocab, n) ==
    IF n = 0 THEN {<<>>}
    ELSE LET shorter == SeqsUpTo(vocab, n - 1)
         IN  shorter \cup {Append(s, vocab[i]) : s \in shorter, i \in 1..Len(vocab)}

\* '\n'.join(ls)
RECURSIVE JoinLines(_)
JoinLines(ls) ==
    IF ls = <<>> THEN <<>>
    ELSE IF Len(ls) = 1 THEN ls[1]
    ELSE ls[1] \o <<NL>> \o JoinLines(Tail(ls))

Headers == { <<>>, << <<83, 67, 66, 32, 66, 97, 110, 107>> (* "SCB Bank" *) >>, << <<83, 67, 66, 32, 66, 97, 110, 107, 32, 116, 114, 97, 110, 115, 102, 101, 114>> (* "SCB Bank transfer" *) >> }

NameLines ==
    << <<84, 111, 58, 32, 83, 111, 109, 32, 74, 97, 105, 100, 101, 101>> (* "To: Som Jaidee" *),
       <<70, 114, 111, 109, 58, 32, 83, 111, 109, 32, 74, 46>> (* "From: Som J." *),
       <<70, 114, 111, 109, 58, 32, 65, 110, 110, 32, 76, 101, 101>> (* "From: Ann Lee" *),
       <<84, 111, 58, 32, 77, 114, 46, 32, 83, 111, 109>> (* "To: Mr. Som" *),
       <<3612, 3641, 3657, 3619, 3633, 3610, 58, 32, 3626, 3617, 3594, 3634, 3618, 32, 3651, 3592, 3604, 3637>> (* "ผู้รับ: สมชาย ใจดี" *) >>

AmountLines ==
    << <<53, 48, 32, 84, 72, 66>> (* "50 THB" *),
       <<65, 109, 111, 117, 110, 116, 58, 32, 49, 44, 50, 51, 52, 46, 53, 48>> (* "Amount: 1,234.50" *),
       <<49, 50, 51, 52, 46, 53, 48>> (* "1234.50" *),
       <<49, 44, 50, 51, 52, 46, 53, 48>> (* "1,234.50" *),
       <<49, 50, 44, 48, 48, 48, 44, 48, 48, 48, 46, 48, 48>> (* "12,000,000.00" *),
       <<50, 48, 48, 48, 48, 48, 48, 48, 48, 48, 32, 84, 72, 66>> (* "2000000000 THB" *),
       <<48, 46, 48, 48, 32, 84, 72, 66>> (* "0.00 THB" *),
       <<44, 32, 84, 72, 66>> (* ", THB" *),
       <<49, 44, 50, 51>> (* "1,23" *),
       <<49, 50, 51>> (* "123" *) >>

\* the amount part of a receipt text: nothing, an amount read with a letter
\* for a digit, or a labelled amount
ReceiptAmounts == { <<>>, << <<53, 111, 48, 32, 84, 72, 66>> (* "5o0 THB" *) >>, <<AmountLines[2]>> }

\* recognized texts: a header, name lines and an amount line
ReceiptTexts ==
    {JoinLines(h \o ns \o a) :
        h \in Headers, ns \in SeqsUpTo(NameLines, MaxNameLines), a \in ReceiptAmounts}

AmountTexts == {JoinLines(ls) : ls \in SeqsUpTo(AmountLines, MaxAmountLines)}

MaxDateLines == 2

\* date lines of a slip: each catalog pattern with a date it takes, a date it
\* refuses, and Buddhist-era, two-digit and Gregorian years
DateLines ==
    << <<49, 53, 47, 48, 50, 47, 50, 53, 54, 55>> (* "15/02/2567" *),
       <<51, 50, 47, 48, 49, 47, 50, 48, 50, 52>> (* "32/01/2024" *),
       <<49, 53, 47, 48, 49, 47, 50, 48, 50, 52>> (* "15/01/2024" *),
       <<49, 53, 32, 3585, 46, 3614, 46, 32, 50, 53, 54, 55>> (* "15 ก.พ. 2567" *),
       <<51, 50, 32, 3585, 46, 3614, 46, 32, 54, 55>> (* "32 ก.พ. 67" *),
       <<53, 32, 70, 101, 98, 32, 50, 52>> (* "5 Feb 24" *),
       <<50, 48, 50, 52, 45, 49, 51, 45, 52, 53>> (* "2024-13-45" *),
       <<50, 53, 54, 55, 45, 48, 50, 45, 49, 53>> (* "2567-02-15" *),
       <<50, 48, 50, 52, 45, 48, 49, 45, 48, 53>> (* "2024-01-05" *),
       <<3623, 3633, 3609, 3607, 3637, 3656, 32, 49, 53, 32, 3585, 46, 3614, 46, 32, 54, 57>> (* "วันที่ 15 ก.พ. 69" *),
       <<49, 32, 3617, 46, 3588, 46, 32, 50, 53, 48, 48>> (* "1 ม.ค. 2500" *),
       <<50, 53, 54, 55, 45, 48, 50, 45, 49, 53, 32, 3623, 3633, 3609, 3607, 3637, 3656, 32, 49, 53, 32, 3585, 46, 3614, 46, 32, 54, 57>> (* "2567-02-15 วันที่ 15 ก.พ. 69" *),
       <<82, 101, 102, 32, 48, 48, 49, 50>> (* "Ref 0012" *) >>

DateTexts == {JoinLines(ls) : ls \in SeqsUpTo(DateLines, MaxDateLines)}

MaxTimeLines == 2

\* time lines of a slip: each pattern of the catalog with a time it takes and
\* a time it refuses
TimeLines ==
    << <<49, 50, 58, 51, 48, 58, 52, 53>> (* "12:30:45" *),
       <<50, 53, 58, 54, 49, 58, 48, 48>> (* "25:61:00" *),
       <<57, 58, 48, 53>> (* "9:05" *),
       <<49, 57, 58, 48, 57, 32, 3609, 46>> (* "19:09 น." *),
       <<50, 52, 58, 48, 48, 32, 3609, 46>> (* "24:00 น." *),
       <<3648, 3623, 3621, 3634, 32, 55, 58, 49, 53>> (* "เวลา 7:15" *),
       <<3648, 3623, 3621, 3634, 32, 50, 51, 58, 54, 48, 32, 120>> (* "เวลา 23:60 x" *),
       <<48, 49, 47, 48, 50, 47, 50, 48, 50, 52, 44, 32, 49, 57, 58, 48, 57>> (* "01/02/2024, 19:09" *),
       <<49, 53, 47, 48, 50, 47, 54, 55, 32, 48, 56, 58, 48, 53, 32, 120>> (* "15/02/67 08:05 x" *),
       <<44, 32, 54, 58, 48, 55, 32, 120>> (* ", 6:07 x" *),
       <<82, 101, 102, 32, 48, 48, 49, 50>> (* "Ref 0012" *) >>

TimeTexts == {JoinLines(ls) : ls \in SeqsUpTo(TimeLines, MaxTimeLines)}

MaxTextLen == 5

\* the characters of a short recognized text: 1, o, x, l, S, B
FixAlphabet == <<49, 111, 120, 108, 83, 66>>

ShortTexts == SeqsUpTo(FixAlphabet, MaxTextLen)

MaxTitleLines == 2

\* title lines of a slip: fixed titles, free titles ending with the success
\* word, titles of 30 characters, of more, and with blanks around them
TitleLines ==
    << <<3650, 3629, 3609, 3648, 3591, 3636, 3609, 3626, 3635, 3648, 3619, 3655, 3592>> (* "โอนเงินสำเร็จ" *),
       <<3648, 3605, 3636, 3617, 3648, 3591, 3636, 3609, 3626, 3635, 3648, 3619, 3655, 3592>> (* "เติมเงินสำเร็จ" *),
       <<116, 114, 97, 110, 115, 102, 101, 114, 32, 32, 83, 85, 67, 67, 69, 83, 83, 70, 85, 76>> (* "transfer  SUCCESSFUL" *),
       <<32, 3594, 3635, 3619, 3632, 3588, 3656, 3634, 3626, 3636, 3609, 3588, 3657, 3634, 32, 3626, 3635, 3648, 3619, 3655, 3592>> (* " ชำระค่าสินค้า สำเร็จ" *),
       <<32, 97, 98, 99, 100, 101, 102, 103, 104, 105, 106, 32, 97, 98, 99, 100, 101, 102, 103, 104, 105, 106, 32, 97, 32, 3626, 3635, 3648, 3619, 3655, 3592>> (* " abcdefghij abcdefghij a สำเร็จ" *),
       <<97, 98, 99, 100, 101, 102, 103, 104, 105, 106, 32, 97, 98, 99, 100, 101, 102, 103, 104, 105, 106, 32, 97, 98, 99, 100, 101, 102, 103, 104, 105, 106, 32, 3626, 3635, 3648, 3619, 3655, 3592>> (* "abcdefghij abcdefghij abcdefghij สำเร็จ" *),
       <<3650, 3629, 3609, 3648, 3591, 3636, 3609, 3651, 3627, 3657, 32, 83, 111, 109, 32, 74, 97, 105, 100, 101, 101>> (* "โอนเงินให้ Som Jaidee" *),
       <<3650, 3629, 3609, 3648, 3591, 3636, 3609, 3651, 3627, 3657, 32, 97, 98, 99, 100, 101, 102, 103, 104, 105, 106, 32, 97, 98, 99, 100, 101, 102, 103, 104, 105, 106, 32, 97, 98, 99, 100, 101, 102, 103, 104, 105, 106>> (* "โอนเงินให้ abcdefghij abcdefghij abcdefghij" *),
       <<82, 101, 102, 32, 48, 48, 49, 50>> (* "Ref 0012" *),
       <<49, 44, 50, 51, 52, 46, 53, 48>> (* "1,234.50" *) >>

TitleTexts == {JoinLines(ls) : ls \in SeqsUpTo(TitleLines, MaxTitleLines)}

User(auth, first, last) ==
    [is_authenticated |-> auth, first_name |-> first, last_name |-> last]

MaxFiles == 2
MaxSlips == 3

\* the files of an upload are told apart by their position; ok: the file is
\* an image
FileLists ==
    UNION {[1..n -> BOOLEAN] : n \in 0..MaxFiles}

Files(oks) == [i \in 1..Len(oks) |-> [name |-> i, ok |-> oks[i]]]

\* the form fields of an upload: whether they validate, and the account name
BulkData ==
    {[valid |-> v, account_name |-> a, type |-> "expense"] :
        v \in BOOLEAN, a \in { <<115, 111, 109, 32, 74, 65, 73, 68, 69, 69>> (* "som JAIDEE" *), <<83, 104, 111, 112>> (* "Shop" *) }}

BulkUsers == { User(TRUE, <<83, 111, 109>> (* "Som" *), <<74, 97, 105, 100, 101, 101>> (* "Jaidee" *)), User(TRUE, <<83, 111, 109>> (* "Som" *), <<>>) }

\* request.user of an unauthenticated request (AnonymousUser)
AnonymousUser == User(FALSE, <<>>, <<>>)

Users ==
    { User(TRUE, <<83, 111, 109>> (* "Som" *), <<74, 97, 105, 100, 101, 101>> (* "Jaidee" *)),
      User(TRUE, <<83, 111, 109>> (* "Som" *), <<>>),
      User(TRUE, <<>>, <<83, 111, 109>> (* "Som" *)),
      User(TRUE, <<>>, <<>>),
      User(TRUE, <<3626, 3617, 3594, 3634, 3618>> (* "สมชาย" *), <<3651, 3592, 3604, 3637>> (* "ใจดี" *)) }

\* what the OCR.space call ends with (views.py 181-222)
OcrFailures == {"timeout", "http_error", "no_parsed_results", "exception"}

\* what a failed call had received: nothing, or a text (the body of a reply
\* that is not 200 or has no ParsedResults, a ParsedText read before an
\* exception); a timeout has received nothing
FailureTexts == { <<>>, JoinLines(<<<<83, 67, 66, 32, 66, 97, 110, 107, 32, 116, 114, 97, 110, 115, 102, 101, 114>> (* "SCB Bank transfer" *), NameLines[1], AmountLines[2]>>) }

OcrOutcomes ==
    {[kind |-> "parsed", text |-> t] : t \in ReceiptTexts}
    \cup {[kind |-> k, text |-> t] : k \in OcrFailures \ {"timeout"}, t \in FailureTexts}
    \cup {[kind |-> "timeout", text |-> <<>>]}

\* registered names: short and long first and last names
RegisteredFirst == << <<97>> (* "a" *), <<83, 111, 109>> (* "Som" *), <<65, 110, 110>> (* "Ann" *), <<83, 111, 109, 99, 104, 97, 105>> (* "Somchai" *), <<3626, 3617, 3594, 3634, 3618>> (* "สมชาย" *) >>

RegisteredLast == << <<74>> (* "J" *), <<76, 101, 101>> (* "Lee" *), <<98, 97, 98, 97, 98>> (* "babab" *), <<74, 97, 105, 100, 101, 101>> (* "Jaidee" *), <<87, 111, 110, 103, 115, 97, 119, 97, 116>> (* "Wongsawat" *), <<3651, 3592, 3604, 3637>> (* "ใจดี" *) >>

RegisteredUsers ==
    {User(TRUE, RegisteredFirst[f], RegisteredLast[l]) :
        f \in 1..Len(RegisteredFirst), l \in 1..Len(RegisteredLast)}

\* the user's first name alone (cut = 0), or followed by the first `cut`
\* characters of the last name
Shortening(user, cut) ==
    IF cut = 0 THEN user.first_name
    ELSE user.first_name \o <<32>> \o SubSeq(user.last_name, 1, cut)

MaxCalendarLines == 2

\* date lines whose day is at most 31: the last days of months, in the
\* numeric, the Thai, the English and the ISO form
CalendarLines ==
    << <<51, 49, 47, 48, 50, 47, 50, 48, 50, 52>> (* "31/02/2024" *),
       <<50, 57, 47, 48, 50, 47, 50, 48, 50, 51>> (* "29/02/2023" *),
       <<50, 57, 47, 48, 50, 47, 50, 48, 50, 52>> (* "29/02/2024" *),
       <<51, 49, 47, 49, 50, 47, 50, 48, 50, 52>> (* "31/12/2024" *),
       <<51, 49, 32, 3648, 3617, 46, 3618, 46, 32, 50, 53, 54, 55>> (* "31 เม.ย. 2567" *),
       <<50, 57, 32, 3585, 46, 3614, 46, 32, 50, 53, 54, 55>> (* "29 ก.พ. 2567" *),
       <<51, 48, 32, 70, 101, 98, 32, 50, 52>> (* "30 Feb 24" *),
       <<51, 48, 32, 74, 117, 110, 32, 50, 52>> (* "30 Jun 24" *),
       <<50, 48, 50, 52, 45, 48, 50, 45, 50, 56>> (* "2024-02-28" *),
       <<82, 101, 102, 32, 48, 48, 49, 50>> (* "Ref 0012" *) >>

CalendarTexts == {JoinLines(ls) : ls \in SeqsUpTo(CalendarLines, MaxCalendarLines)}

MaxTypeLines == 2

\* lines of a receipt that carry a keyword of type_keywords: of income, of
\* expense, of both, in Thai
TypeLines ==
    << <<82, 101, 99, 101, 105, 118, 101, 100>> (* "Received" *),
       <<80, 97, 121, 109, 101, 110, 116>> (* "Payment" *),
       <<80, 97, 121, 109, 101, 110, 116, 32, 82, 101, 99, 101, 105, 118, 101, 100>> (* "Payment Received" *),
       <<3619, 3633, 3610, 3648, 3591, 3636, 3609>> (* "รับเงิน" *) >>

\* lines that name the user in full, the user abbreviated, and somebody else
TypeNameLines == << NameLines[1], NameLines[2], NameLines[3] >>

\* receipts that pass the plausibility filter, with and without a type
\* keyword, names and an amount
TypeTexts ==
    {JoinLines(<<<<83, 67, 66, 32, 66, 97, 110, 107, 32, 116, 114, 97, 110, 115, 102, 101, 114>> (* "SCB Bank transfer" *)>> \o k \o ns \o a) :
        k \in SeqsUpTo(TypeLines, 1),
        ns \in SeqsUpTo(TypeNameLines, MaxTypeLines),
        a \in { <<>>, <<AmountLines[1]>> }}

TypeUsers == { User(TRUE, <<83, 111, 109>> (* "Som" *), <<74, 97, 105, 100, 101, 101>> (* "Jaidee" *)), User(TRUE, <<65, 110, 110>> (* "Ann" *), <<76, 101, 101>> (* "Lee" *)) }

MaxCandLines == 2

\* lines of a normalized text that name the parties: the user in full and
\* abbreviated, with an honorific, somebody else by one word and by two, and
\* an amount
CandLines ==
    << <<84, 111, 58, 32, 83, 111, 109, 32, 74, 46>> (* "To: Som J." *),
       <<84, 111, 58, 32, 77, 114, 46, 32, 83, 111, 109>> (* "To: Mr. Som" *),
       <<84, 111, 58, 32, 83, 111, 109, 32, 74, 97, 105, 100, 101, 101>> (* "To: Som Jaidee" *),
       <<70, 114, 111, 109, 58, 32, 83, 111, 109, 32, 74, 97, 105, 100, 101, 101>> (* "From: Som Jaidee" *),
       <<70, 114, 111, 109, 58, 32, 65, 110, 110>> (* "From: Ann" *),
       <<70, 114, 111, 109, 58, 32, 65, 110, 110, 32, 76, 101, 101>> (* "From: Ann Lee" *),
       <<84, 111, 58, 32, 83, 79, 77, 32, 74, 65, 73, 68, 69, 69>> (* "To: SOM JAIDEE" *),
       <<53, 48, 48, 32, 84, 72, 66>> (* "500 THB" *) >>

CandTexts == {JoinLines(ls) : ls \in SeqsUpTo(CandLines, MaxCandLines)}

NumUsers == 3
NumAdmins == 2
NumClients == 2
MaxIssued == 3
MaxChanges == 2

UserIds == 1..NumUsers

Clients == 1..NumClients

Passwords == {1, 2}

\* the User table at the start: the first NumAdmins users are staff, every
\* user is active and has the first password
InitialUsers ==
    [id \in UserIds |->
        [exists |-> TRUE, is_staff |-> id <= NumAdmins, is_active |-> TRUE,
         password |-> 1, changes |-> 0]]

NoCookies == [refresh_token |-> NoToken, access_token |-> NoToken]

\* SIMPLE_JWT of the settings module: the options the views and the
\* authentication read
Settings ==
    [ROTATE_REFRESH_TOKENS : BOOLEAN, BLACKLIST : BOOLEAN, CHECK_REVOKE_TOKEN : BOOLEAN]

\* the defaults of the library
DefaultSettings ==
    [ROTATE_REFRESH_TOKENS |-> FALSE, BLACKLIST |-> FALSE, CHECK_REVOKE_TOKEN |-> FALSE]

CandUsers ==
    { User(TRUE, <<83, 111, 109>> (* "Som" *), <<74, 97, 105, 100, 101, 101>> (* "Jaidee" *)),
      User(TRUE, <<65, 110, 110>> (* "Ann" *), <<76, 101, 101>> (* "Lee" *)),
      User(TRUE, <<66, 111, 98>> (* "Bob" *), <<82, 97, 121>> (* "Ray" *)) }

MaxGap == 1

\* the honorifics of the patterns (views.py 299, 436, 440-444, 448)
Honorifics ==
    << <<3609, 3634, 3618>> (* "นาย" *), <<3609, 3634, 3591>> (* "นาง" *), <<3609, 3634, 3591, 3626, 3634, 3623>> (* "นางสาว" *), <<3609, 46, 3626, 46>> (* "น.ส." *), <<77, 114, 46>> (* "Mr." *), <<77, 114, 115, 46>> (* "Mrs." *), <<77, 115, 46>> (* "Ms." *) >>

\* the cue that puts a candidate in the receiver list, in the sender list
HonorificCues == << <<84, 111, 58, 32>> (* "To: " *), <<3612, 3641, 3657, 3619, 3633, 3610, 58, 32>> (* "ผู้รับ: " *), <<70, 114, 111, 109, 58, 32>> (* "From: " *) >>

HonorificNames == << <<83, 111, 109, 32, 74, 97, 105, 100, 101, 101>> (* "Som Jaidee" *), <<3626, 3617, 3624, 3619, 3637, 32, 3651, 3592, 3604, 3637>> (* "สมศรี ใจดี" *), <<65, 110, 110, 32, 76, 101, 101>> (* "Ann Lee" *) >>

\* n blanks
Blanks(n) == [i \in 1..n |-> 32]

\* short names over a small alphabet: a, b, space, '.'
NameAlphabet == <<97, 98, 32, 46>>

ShortNames == SeqsUpTo(NameAlphabet, MaxNameLen)

MatchUsers ==
    {User(TRUE, f, l) :
        f \in { <<>>, <<97>> (* "a" *), <<97, 98>> (* "ab" *) },
        l \in { <<>>, <<98>> (* "b" *), <<97, 98, 98>> (* "abb" *), <<98, 97, 98, 97, 98>> (* "babab" *) }}

\* ------------------------------------------------------------ actions

Init ==
    /\ request = NoRequest
    /\ response = NoResponse
    /\ fn = NoCall
    /\ slips = <<>>
    /\ auth_user = InitialUsers
    /\ cookies = [c \in Clients |-> NoCookies]
    /\ jwt = [issued |-> 0, blacklist |-> {}]
    /\ settings = DefaultSettings
    /\ calls = [a \in UserIds |-> Waiting(0)]

\* no request is being served
Idle == request = NoRequest

\* permission_classes = [IsAuthenticated] (views.py 125): the handler is not
\* entered.  The refusal is 401 where the first authentication class of the
\* settings has an authenticate_header (cookie_jwt_auth.py), 403 otherwise
NotAuthenticatedStatus == {401, 403}

OcrUnauthenticated ==
    /\ Idle
    /\ request' = [kind |-> "ocr", image |-> TRUE, user |-> AnonymousUser,
                   ocr |-> [kind |-> "none", text |-> <<>>]]
    /\ \E refused \in NotAuthenticatedStatus : response' = [status |-> refused]
    /\ UNCHANGED <<fn, slips, accounts>>

\* if not image: return Response({'error': 'No image provided'}, status=400)
OcrNoImage(user) ==
    /\ Idle
    /\ request' = [kind |-> "ocr", image |-> FALSE, user |-> user,
                   ocr |-> [kind |-> "none", text |-> <<>>]]
    /\ response' = [status |-> 400, error |-> "No image provided"]
    /\ UNCHANGED <<fn, slips, accounts>>

\* SlipViewSet.ocr with an image: the OCR.space call ends with `ocr`
Ocr(user, ocr) ==
    /\ Idle
    /\ request' = [kind |-> "ocr", image |-> TRUE, user |-> user, ocr |-> ocr]
    /\ response' = ocr_response(RecognizedText(ocr), user)
    /\ UNCHANGED <<fn, slips, accounts>>

\* the response is sent; nothing of the request is kept
Deliver ==
    /\ ~Idle
    /\ request' = NoRequest
    /\ response' = NoResponse
    /\ UNCHANGED <<fn, slips, accounts>>

Next ==
    \/ OcrUnauthenticated
    \/ Idle /\ \E user \in Users : OcrNoImage(user)
    \/ Idle /\ \E user \in Users, ocr \in OcrOutcomes : Ocr(user, ocr)
    \/ Deliver

Spec == Init /\ [][Next]_vars

\* the OCR operation on receipts with type keywords
NextType ==
    \/ Idle /\ \E user \in TypeUsers, text \in TypeTexts : Ocr(user, [kind |-> "parsed", text |-> text])
    \/ Deliver

SpecType == Init /\ [][NextType]_vars

\* the result of a function application is consumed
Return ==
    /\ fn # NoCall
    /\ fn' = NoCall
    /\ UNCHANGED <<request, response, slips, accounts>>

\* check_name_match applied to a strict shortening of the user's name
CheckShortening(user, cut) ==
    /\ fn = NoCall
    /\ fn' = [op |-> "check_shortening", slip_name |-> Shortening(user, cut), user |-> user,
              out |-> check_name_match(Shortening(user, cut), user.first_name, user.last_name)]
    /\ UNCHANGED <<request, response, slips, accounts>>

NextShortening ==
    \/ fn = NoCall /\ \E user \in RegisteredUsers : \E cut \in 0..(Len(user.last_name) - 1) : CheckShortening(user, cut)
    \/ Return

SpecShortening == Init /\ [][NextShortening]_vars

\* the amount extractor applied to a normalized text
ExtractAmount(text) ==
    /\ fn = NoCall
    /\ fn' = [op |-> "found_amount", text |-> text,
              matches |-> AmountMatches(1, text),
              found_amounts |-> found_amounts(text), out |-> found_amount(text)]
    /\ UNCHANGED <<request, response, slips, accounts>>

NextAmount ==
    \/ fn = NoCall /\ \E text \in AmountTexts : ExtractAmount(text)
    \/ Return

SpecAmount == Init /\ [][NextAmount]_vars

\* check_name_match applied to a candidate and a user
CheckName(slip_name, user) ==
    /\ fn = NoCall
    /\ fn' = [op |-> "check_name_match", slip_name |-> slip_name, user |-> user,
              out |-> check_name_match(slip_name, user.first_name, user.last_name)]
    /\ UNCHANGED <<request, response, slips, accounts>>

NextMatch ==
    \/ fn = NoCall /\ \E n \in ShortNames, user \in MatchUsers : CheckName(n, user)
    \/ Return

SpecMatch == Init /\ [][NextMatch]_vars

\* the date loop (views.py 389-429) applied to a normalized text
ExtractDate(text) ==
    /\ fn = NoCall
    /\ fn' = [op |-> "found_date", text |-> text,
              first |-> [i \in 1..Len(date_patterns) |-> DateOfFirst(i, text)],
              out |-> found_date(text)]
    /\ UNCHANGED <<request, response, slips, accounts>>

NextDate ==
    \/ fn = NoCall /\ \E text \in DateTexts : ExtractDate(text)
    \/ Return

SpecDate == Init /\ [][NextDate]_vars

\* the date loop on texts with the last days of months
NextCalendar ==
    \/ fn = NoCall /\ \E text \in CalendarTexts : ExtractDate(text)
    \/ Return

SpecCalendar == Init /\ [][NextCalendar]_vars

\* extract_time applied to a normalized text
ExtractTime(text) ==
    /\ fn = NoCall
    /\ fn' = [op |-> "extract_time", text |-> text,
              first |-> [i \in 1..Len(time_patterns) |-> TimeOfFirst(i, text)],
              out |-> extract_time(text)]
    /\ UNCHANGED <<request, response, slips, accounts>>

NextTime ==
    \/ fn = NoCall /\ \E text \in TimeTexts : ExtractTime(text)
    \/ Return

SpecTime == Init /\ [][NextTime]_vars

\* fix_ocr_common applied to a recognized text, and to its own result
FixOcr(text) ==
    /\ fn = NoCall
    /\ fn' = [op |-> "fix_ocr_common", text |-> text,
              out |-> fix_ocr_common(text),
              again |-> fix_ocr_common(fix_ocr_common(text))]
    /\ UNCHANGED <<request, response, slips, accounts>>

NextFix ==
    \/ fn = NoCall /\ \E text \in ShortTexts : FixOcr(text)
    \/ Return

SpecFix == Init /\ [][NextFix]_vars

\* extract_transaction_title applied to a normalized text
ExtractTitle(text) ==
    /\ fn = NoCall
    /\ fn' = [op |-> "extract_transaction_title", text |-> text,
              out |-> extract_transaction_title(text)]
    /\ UNCHANGED <<request, response, slips, accounts>>

NextTitle ==
    \/ fn = NoCall /\ \E text \in TitleTexts : ExtractTitle(text)
    \/ Return

SpecTitle == Init /\ [][NextTitle]_vars

\* the lists of a text and what the classifier makes of them
NamesCall(text, user, names, receivers, senders) ==
    [op |-> "classify", text |-> text, user |-> user,
     found_names |-> names, found_receivers |-> receivers, found_senders |-> senders,
     out |-> classify(receivers, senders, names, user)]

\* the name extraction (views.py 306-323, 456-470) and the name-based
\* classification (572-643) applied to a normalized text
ExtractNames(text, user) ==
    /\ fn = NoCall
    /\ fn' = NamesCall(text, user, found_names(text), found_receivers(text),
                       found_senders(text))
    /\ UNCHANGED <<request, response, slips, accounts>>

NextNames ==
    \/ fn = NoCall /\ \E text \in CandTexts, user \in CandUsers : ExtractNames(text, user)
    \/ Return

SpecNames == Init /\ [][NextNames]_vars

\* the lists of a text that is a cue, an honorific and a name
HonorificCall(cue, honorific, gap, name, text) ==
    [op |-> "clean_name", cue |-> cue, honorific |-> honorific, gap |-> gap,
     name |-> name, text |-> text,
     cleaned |-> clean_name(honorific \o Blanks(gap) \o name),
     found_names |-> found_names(text), found_receivers |-> found_receivers(text),
     found_senders |-> found_senders(text)]

\* the name extraction (views.py 306-323, 433-470) applied to a candidate
\* written with an honorific
CleanName(cue, honorific, gap, name) ==
    /\ fn = NoCall
    /\ fn' = HonorificCall(cue, honorific, gap, name,
                           cue \o honorific \o Blanks(gap) \o name)
    /\ UNCHANGED <<request, response, slips, accounts>>

NextClean ==
    \/ fn = NoCall /\ \E c \in 1..Len(HonorificCues), h \in 1..Len(Honorifics), gap \in 0..MaxGap, n \in 1..Len(HonorificNames) : CleanName(HonorificCues[c], Honorifics[h], gap, HonorificNames[n])
    \/ Return

SpecClean == Init /\ [][NextClean]_vars

\* bulk_upload by a caller who is not authenticated: the handler is not entered
BulkUnauthenticated(oks, data) ==
    /\ Idle
    /\ request' = [kind |-> "bulk_upload", user |-> AnonymousUser,
                   files |-> Files(oks), data |-> data]
    /\ \E refused \in NotAuthenticatedStatus : response' = [status |-> refused]
    /\ UNCHANGED <<fn, slips, accounts>>

\* if not files: return Response({'error': 'No files provided'}, status=400)
BulkNoFiles(user, data) ==
    /\ Idle
    /\ request' = [kind |-> "bulk_upload", user |-> user, files |-> <<>>, data |-> data]
    /\ response' = [status |-> 400, error |-> "No files provided"]
    /\ UNCHANGED <<fn, slips, accounts>>

\* SlipViewSet.bulk_upload with files
BulkUpload(user, oks, data) ==
    /\ Idle
    /\ oks # <<>>
    /\ Len(slips) + Len(oks) <= MaxSlips
    /\ request' = [kind |-> "bulk_upload", user |-> user, files |-> Files(oks), data |-> data]
    /\ response' = bulk_response(bulk_upload(Files(oks), data, user, slips))
    /\ slips' = bulk_upload(Files(oks), data, user, slips).slips
    /\ UNCHANGED <<fn, accounts>>

NextBulk ==
    \/ Idle /\ \E oks \in FileLists, data \in BulkData : BulkUnauthenticated(oks, data)
    \/ Idle /\ \E user \in BulkUsers, data \in BulkData : BulkNoFiles(user, data)
    \/ Idle /\ \E user \in BulkUsers, oks \in FileLists, data \in BulkData : BulkUpload(user, oks, data)
    \/ Deliver

SpecBulk == Init /\ [][NextBulk]_vars

\* the same start under any SIMPLE_JWT settings
InitAuth ==
    /\ request = NoRequest
    /\ response = NoResponse
    /\ fn = NoCall
    /\ slips = <<>>
    /\ auth_user = InitialUsers
    /\ cookies = [c \in Clients |-> NoCookies]
    /\ jwt = [issued |-> 0, blacklist |-> {}]
    /\ settings \in Settings
    /\ calls = [a \in UserIds |-> Waiting(0)]

\* the token of a request was issued before the last password change of its
\* user
IssuedBeforeChange(token) ==
    /\ token.kind # "none"
    /\ token.epoch < auth_user[token.user].changes

\* CookieTokenObtainPairView.post with the username of user id and a password
Login(c, id, password) ==
    /\ Idle
    /\ jwt.issued < MaxIssued
    /\ request' = [kind |-> "login", client |-> c, user |-> id, token |-> NoToken,
                   old |-> FALSE]
    /\ IF auth_user[id].exists /\ auth_user[id].password = password
       THEN IF ~auth_user[id].is_active
            THEN /\ response' = [status |-> 403, code |-> "ACCOUNT_SUSPENDED"]
                 /\ UNCHANGED <<cookies, jwt>>
            ELSE /\ response' = [status |-> 200, authenticated |-> TRUE]
                 /\ jwt' = [jwt EXCEPT !.issued = @ + 1]
                 /\ cookies' = [cookies EXCEPT ![c] =
                        [refresh_token |-> RefreshTokenFor(auth_user[id], id, jwt.issued + 1),
                         access_token  |-> AccessTokenOf(RefreshTokenFor(auth_user[id], id, jwt.issued + 1))]]
       ELSE /\ response' = [status |-> 401, code |-> "no_active_account"]
            /\ UNCHANGED <<cookies, jwt>>
    /\ UNCHANGED <<fn, slips, auth_user, settings, calls>>

\* the refresh_token cookie after CookieTokenRefreshView.post has rotated it:
\* a new token of the same user if the user is still there
Rotated(token, c) ==
    IF auth_user[token.user].exists
    THEN RefreshTokenFor(auth_user[token.user], token.user, jwt.issued + 1)
    ELSE cookies[c].refresh_token

\* CookieTokenRefreshView.post
Refresh(c) ==
    /\ Idle
    /\ settings.ROTATE_REFRESH_TOKENS => jwt.issued < MaxIssued
    /\ request' = [kind |-> "refresh", client |-> c, user |-> 0,
                   token |-> cookies[c].refresh_token,
                   old |-> IssuedBeforeChange(cookies[c].refresh_token)]
    /\ IF cookies[c].refresh_token = NoToken
       THEN /\ response' = [status |-> 401, code |-> "REFRESH_TOKEN_MISSING"]
            /\ UNCHANGED <<cookies, jwt>>
       ELSE IF ~RefreshTokenVerifies(cookies[c].refresh_token, jwt, settings)
       THEN /\ response' = [status |-> 401, code |-> "REFRESH_TOKEN_REVOKED"]
            /\ UNCHANGED <<cookies, jwt>>
       ELSE /\ response' = [status |-> 200, authenticated |-> TRUE]
            /\ IF settings.ROTATE_REFRESH_TOKENS
               THEN /\ jwt' = [Blacklisted(cookies[c].refresh_token, jwt, settings)
                                   EXCEPT !.issued = IF auth_user[cookies[c].refresh_token.user].exists
                                                     THEN @ + 1 ELSE @]
                    /\ cookies' = [cookies EXCEPT ![c] =
                           [refresh_token |-> Rotated(cookies[c].refresh_token, c),
                            access_token  |-> AccessTokenOf(cookies[c].refresh_token)]]
               ELSE /\ jwt' = jwt
                    /\ cookies' = [cookies EXCEPT
                           ![c].access_token = AccessTokenOf(cookies[c].refresh_token)]
    /\ UNCHANGED <<fn, slips, auth_user, settings, calls>>

\* ChangePasswordView.post
ChangePassword(c, old_password, new_password) ==
    /\ Idle
    /\ request' = [kind |-> "change_password", client |-> c,
                   user |-> authenticate(cookies[c].access_token, auth_user, settings),
                   token |-> cookies[c].access_token,
                   old |-> IssuedBeforeChange(cookies[c].access_token)]
    /\ IF authenticate(cookies[c].access_token, auth_user, settings) = 0
       THEN /\ response' = [status |-> 401]
            /\ UNCHANGED <<auth_user, cookies>>
       ELSE IF auth_user[authenticate(cookies[c].access_token, auth_user, settings)].password # old_password
       THEN /\ response' = [status |-> 400, detail |-> "Old password is incorrect"]
            /\ UNCHANGED <<auth_user, cookies>>
       ELSE /\ auth_user[authenticate(cookies[c].access_token, auth_user, settings)].changes < MaxChanges
            /\ response' = [status |-> 200, detail |-> "Password changed, session expired"]
            /\ auth_user' = [auth_user EXCEPT
                   ![authenticate(cookies[c].access_token, auth_user, settings)] =
                       [@ EXCEPT !.password = new_password, !.changes = @ + 1]]
            /\ cookies' = [cookies EXCEPT ![c].refresh_token = NoToken]
    /\ UNCHANGED <<fn, slips, jwt, settings, calls>>

\* LogoutView.post
Logout(c) ==
    /\ Idle
    /\ request' = [kind |-> "logout", client |-> c, user |-> 0,
                   token |-> cookies[c].refresh_token,
                   old |-> IssuedBeforeChange(cookies[c].refresh_token)]
    /\ response' = [status |-> 200, detail |-> "Successfully logged out"]
    /\ jwt' = IF RefreshTokenVerifies(cookies[c].refresh_token, jwt, settings)
              THEN Blacklisted(cookies[c].refresh_token, jwt, settings)
              ELSE jwt
    /\ cookies' = [cookies EXCEPT ![c] = NoCookies]
    /\ UNCHANGED <<fn, slips, auth_user, settings, calls>>

\* a request to a view with permission_classes = [IsAuthenticated]
Authenticated(c) ==
    /\ Idle
    /\ request' = [kind |-> "authenticated", client |-> c,
                   user |-> authenticate(cookies[c].access_token, auth_user, settings),
                   token |-> cookies[c].access_token,
                   old |-> IssuedBeforeChange(cookies[c].access_token)]
    /\ response' = [status |-> IF authenticate(cookies[c].access_token, auth_user, settings) = 0
                               THEN 401 ELSE 200]
    /\ UNCHANGED <<fn, slips, accounts>>

\* max_age of the access_token cookie (5 minutes) has passed: the browser
\* drops the cookie
AccessExpires(c) ==
    /\ Idle
    /\ cookies[c].access_token # NoToken
    /\ cookies' = [cookies EXCEPT ![c].access_token = NoToken]
    /\ UNCHANGED <<request, response, fn, slips, auth_user, jwt, settings, calls>>

NextAuth ==
    \/ Idle /\ \E c \in Clients, id \in UserIds, password \in Passwords : Login(c, id, password)
    \/ Idle /\ \E c \in Clients : Refresh(c)
    \/ Idle /\ \E c \in Clients, old_password \in Passwords, new_password \in Passwords : ChangePassword(c, old_password, new_password)
    \/ Idle /\ \E c \in Clients : Logout(c)
    \/ Idle /\ \E c \in Clients : Authenticated(c)
    \/ Idle /\ \E c \in Clients : AccessExpires(c)
    \/ Deliver

SpecAuth == InitAuth /\ [][NextAuth]_vars

\* ------------------------------------------------------------ admin requests

\* every query of a handler is a step of its own: the views run in Django's
\* autocommit mode, without transaction.atomic or select_for_update, and the
\* server serves the requests of several admins at once

\* User.objects.filter(is_staff=True)
Staff(table) == {id \in UserIds : table[id].exists /\ table[id].is_staff}

\* the row is deleted
Deleted(row) == [row EXCEPT !.exists = FALSE, !.is_staff = FALSE]

\* the call of admin a has answered
Answer(a, status) == calls' = [calls EXCEPT ![a] = [@ EXCEPT !.pc = "done", !.status = status]]

\* the call of admin a goes on at pc
Goto(a, pc) == calls' = [calls EXCEPT ![a].pc = pc]

\* the user may send one more request
CanSend(a) == calls[a].op = "none" /\ calls[a].sent < MaxRequests

\* the status of permission_classes = [IsAuthenticated, IsAdminUser] for the
\* user of the token: 0 when the request is let in
Permission(row) ==
    IF ~(row.exists /\ row.is_active) THEN 401 ELSE IF ~row.is_staff THEN 403 ELSE 0

\* a request enters a view: the user of the token is read and has to be staff
Enter(a, call) ==
    calls' = [calls EXCEPT ![a] =
        IF Permission(auth_user[a]) = 0 THEN call
        ELSE [call EXCEPT !.pc = "done", !.status = Permission(auth_user[a])]]

\* the tables the admin views do not write
AdminUnchanged == UNCHANGED <<request, response, fn, slips, cookies, jwt, settings>>

\* DELETE admin/users/<user_id>/
StartDelete(a, user_id) ==
    /\ CanSend(a)
    /\ Enter(a, [op |-> "delete", pc |-> "get", user_id |-> user_id, is_staff |-> FALSE,
                 status |-> 0, sent |-> calls[a].sent])
    /\ UNCHANGED auth_user
    /\ AdminUnchanged

\* user = User.objects.get(id=user_id), the check against deleting oneself
DeleteGet(a) ==
    /\ calls[a].op = "delete" /\ calls[a].pc = "get"
    /\ IF ~auth_user[calls[a].user_id].exists THEN Answer(a, 404)
       ELSE IF calls[a].user_id = a THEN Answer(a, 400)
       ELSE calls' = [calls EXCEPT ![a] =
                [@ EXCEPT !.is_staff = auth_user[calls[a].user_id].is_staff,
                          !.pc = IF auth_user[calls[a].user_id].is_staff
                                 THEN "count" ELSE "delete"]]
    /\ UNCHANGED auth_user
    /\ AdminUnchanged

\* admin_count = User.objects.filter(is_staff=True).count()
DeleteCount(a) ==
    /\ calls[a].op = "delete" /\ calls[a].pc = "count"
    /\ IF Cardinality(Staff(auth_user)) <= 1 THEN Answer(a, 400) ELSE Goto(a, "delete")
    /\ UNCHANGED auth_user
    /\ AdminUnchanged

\* user.delete()
DeleteRow(a) ==
    /\ calls[a].op = "delete" /\ calls[a].pc = "delete"
    /\ auth_user' = [auth_user EXCEPT ![calls[a].user_id] = Deleted(@)]
    /\ Answer(a, 200)
    /\ AdminUnchanged

\* POST admin/users/bulk-delete/ with user_ids
StartBulkDelete(a, user_ids) ==
    /\ CanSend(a)
    /\ Enter(a, [op |-> "bulk_delete", pc |-> "ids", user_ids |-> user_ids,
                 admin_ids |-> {}, deleted_count |-> 0, status |-> 0,
                 sent |-> calls[a].sent])
    /\ UNCHANGED auth_user
    /\ AdminUnchanged

\* no ids: 400; the caller is taken out of the ids; admin_ids = the staff
\* among the users to delete
BulkAdmins(a) ==
    /\ calls[a].op = "bulk_delete" /\ calls[a].pc = "ids"
    /\ IF calls[a].user_ids = {} THEN Answer(a, 400)
       ELSE calls' = [calls EXCEPT ![a] =
                [@ EXCEPT !.user_ids = @ \ {a},
                          !.admin_ids = (calls[a].user_ids \ {a}) \cap Staff(auth_user),
                          !.pc = "remaining"]]
    /\ UNCHANGED auth_user
    /\ AdminUnchanged

\* remaining_admins = User.objects.filter(is_staff=True)
\*                        .exclude(id__in=admin_ids).count()
BulkRemaining(a) ==
    /\ calls[a].op = "bulk_delete" /\ calls[a].pc = "remaining"
    /\ IF calls[a].admin_ids # {} /\ Staff(auth_user) \ calls[a].admin_ids = {}
       THEN Answer(a, 400)
       ELSE Goto(a, "count")
    /\ UNCHANGED auth_user
    /\ AdminUnchanged

\* deleted_count = users.count()
BulkCount(a) ==
    /\ calls[a].op = "bulk_delete" /\ calls[a].pc = "count"
    /\ calls' = [calls EXCEPT ![a] =
           [@ EXCEPT !.deleted_count =
                         Cardinality({id \in calls[a].user_ids : auth_user[id].exists}),
                     !.pc = "delete"]]
    /\ UNCHANGED auth_user
    /\ AdminUnchanged

\* users.delete()
BulkRows(a) ==
    /\ calls[a].op = "bulk_delete" /\ calls[a].pc = "delete"
    /\ auth_user' = [id \in UserIds |->
           IF id \in calls[a].user_ids THEN Deleted(auth_user[id]) ELSE auth_user[id]]
    /\ Answer(a, 200)
    /\ AdminUnchanged

\* POST admin/users/<user_id>/toggle-admin/; is_staff is "absent", "true" or
\* "false" in the request data
StartToggleAdmin(a, user_id, is_staff) ==
    /\ CanSend(a)
    /\ Enter(a, [op |-> "toggle_admin", pc |-> "get", user_id |-> user_id,
                 data |-> is_staff, is_staff |-> FALSE, status |-> 0,
                 sent |-> calls[a].sent])
    /\ UNCHANGED auth_user
    /\ AdminUnchanged

\* user = User.objects.get(id=user_id), the check against changing oneself,
\* is_staff = request.data.get('is_staff', not user.is_staff)
ToggleGet(a) ==
    /\ calls[a].op = "toggle_admin" /\ calls[a].pc = "get"
    /\ IF ~auth_user[calls[a].user_id].exists THEN Answer(a, 404)
       ELSE IF calls[a].user_id = a THEN Answer(a, 400)
       ELSE calls' = [calls EXCEPT ![a] =
                [@ EXCEPT !.is_staff = IF calls[a].data = "absent"
                                       THEN ~auth_user[calls[a].user_id].is_staff
                                       ELSE calls[a].data = "true",
                          !.pc = "save"]]
    /\ UNCHANGED auth_user
    /\ AdminUnchanged

\* user.save(update_fields=['is_staff']): a DatabaseError (500) when the row
\* is not there any more
ToggleSave(a) ==
    /\ calls[a].op = "toggle_admin" /\ calls[a].pc = "save"
    /\ IF auth_user[calls[a].user_id].exists
       THEN /\ auth_user' = [auth_user EXCEPT ![calls[a].user_id].is_staff = calls[a].is_staff]
            /\ Answer(a, 200)
       ELSE /\ auth_user' = auth_user
            /\ Answer(a, 500)
    /\ AdminUnchanged

\* the response of a call is sent
Respond(a) ==
    /\ calls[a].op # "none"
    /\ calls[a].pc = "done"
    /\ calls' = [calls EXCEPT ![a] = Waiting(calls[a].sent + 1)]
    /\ UNCHANGED auth_user
    /\ AdminUnchanged

NextAdmin ==
    \/ \E a \in UserIds, user_id \in UserIds : StartDelete(a, user_id)
    \/ \E a \in UserIds : DeleteGet(a)
    \/ \E a \in UserIds : DeleteCount(a)
    \/ \E a \in UserIds : DeleteRow(a)
    \/ \E a \in UserIds, user_ids \in SUBSET UserIds : StartBulkDelete(a, user_ids)
    \/ \E a \in UserIds : BulkAdmins(a)
    \/ \E a \in UserIds : BulkRemaining(a)
    \/ \E a \in UserIds : BulkCount(a)
    \/ \E a \in UserIds : BulkRows(a)
    \/ \E a \in UserIds, user_id \in UserIds, is_staff \in {"absent", "true", "false"} : StartToggleAdmin(a, user_id, is_staff)
    \/ \E a \in UserIds : ToggleGet(a)
    \/ \E a \in UserIds : ToggleSave(a)
    \/ \E a \in UserIds : Respond(a)

SpecAdmin == Init /\ [][NextAdmin]_vars

\* ------------------------------------------------------------ properties

\* the request is an OCR request that reached the handler with an image
Handled == request.kind = "ocr" /\ request.image /\ request.user.is_authenticated

\* the response of a handled request whose text passed the plausibility filter
Passed == Handled /\ response.status = 200

\* the text the handler started from
RawText == RecognizedText(request.ocr)

Ext == response.extracted[1]

\* the candidates pooled from the receiver, sender and general lists
RespPool == response.found_receivers \o response.found_senders \o response.found_names

HasMatch == \E i \in 1..Len(RespPool) : IsMatch(RespPool[i], request.user)

HasFullMatch ==
    \E i \in 1..Len(RespPool) :
        IsMatch(RespPool[i], request.user) /\ IsFull(RespPool[i], request.user)

HasAbbreviatedMatch ==
    \E i \in 1..Len(RespPool) :
        IsMatch(RespPool[i], request.user) /\ ~IsFull(RespPool[i], request.user)

\* extracted.type of a response; "None" where the body has no extracted
\* object
ResponseType ==
    IF "extracted" \in DOMAIN response /\ response.extracted # None
    THEN Ext.type ELSE "None"

\* C1: in every response of the OCR operation, a suggested type other than
\* null comes only together with is_valid_slip = true and an amount; the type
\* is null whenever is_valid_slip is false or no amount was extracted.
TypeOnlyWithValidAmount ==
    request.kind = "ocr" =>
        /\ ResponseType # "None" =>
               /\ response.status = 200
               /\ response.is_valid_slip
               /\ Ext.amount # None
        /\ response.status = 200 =>
               ((~response.is_valid_slip \/ Ext.amount = None) => Ext.type = "None")

\* a receipt with a full-name match of the user and no amount: the
\* classification was income, the response carries no type
TypeDroppedWithoutAmount ==
    /\ Passed
    /\ Ext.amount = None
    /\ Ext.type_confidence = "full_name_match"
    /\ ~response.is_valid_slip
    /\ Ext.type = "None"

\* C2: a text with fewer than 3 of the plausibility keywords stops at the
\* filter: status 400, is_valid_slip false, no extracted object (so no type,
\* no fields, no classification), the keyword count, and the text as it was
\* recognized, not normalized.
FilterStopsPipeline ==
    (Handled /\ slip_keyword_count(RawText) < MinSlipKeywords) =>
        response = [status             |-> 400,
                    is_valid_slip      |-> FALSE,
                    text               |-> RawText,
                    slip_keyword_count |-> slip_keyword_count(RawText),
                    extracted          |-> None]

\* a rejected text that the normalizer would have changed and that holds a
\* name and an amount the extractors would have found
RejectedDespiteContent ==
    /\ Handled
    /\ response.status = 400
    /\ "slip_keyword_count" \in DOMAIN response
    /\ response.slip_keyword_count = MinSlipKeywords - 1
    /\ fix_ocr_common(RawText) # RawText
    /\ found_receivers(fix_ocr_common(RawText)) # <<>>
    /\ found_amount(fix_ocr_common(RawText)) # None
    /\ response.text = RawText
    /\ response.extracted = None

\* C3: a receipt that passed the filter and has an amount, with at least one
\* pooled candidate that is a full-name match of the user, is income with
\* confidence full_name_match, whatever abbreviated matches there are.
FullMatchIsIncome ==
    (Passed /\ Ext.amount # None /\ HasFullMatch) =>
        /\ Ext.type = "income"
        /\ Ext.type_confidence = "full_name_match"

\* a receipt whose first matching candidate is abbreviated and a later one
\* full
FullAfterAbbreviated ==
    /\ Passed
    /\ Ext.amount # None
    /\ HasFullMatch
    /\ HasAbbreviatedMatch
    /\ \E i \in 1..Len(RespPool) :
           /\ IsMatch(RespPool[i], request.user)
           /\ ~IsFull(RespPool[i], request.user)
           /\ \A j \in 1..(i - 1) : ~IsMatch(RespPool[j], request.user)
    /\ Ext.type = "income"

\* C4: a receipt that passed the filter and has an amount, with a matching
\* candidate and no full-name match, is expense with confidence
\* abbreviated_name_match.
AbbreviatedMatchIsExpense ==
    (Passed /\ Ext.amount # None /\ HasMatch /\ ~HasFullMatch) =>
        /\ Ext.type = "expense"
        /\ Ext.type_confidence = "abbreviated_name_match"

OnlyAbbreviatedMatch ==
    /\ Passed
    /\ Ext.amount # None
    /\ HasAbbreviatedMatch
    /\ ~HasFullMatch
    /\ Ext.type = "expense"
    /\ response.match = "True"

\* C5 as stated: a receipt that passed the filter and has no candidate
\* matching the user has type expense, confidence uncertain and a warning.
NoMatchIsExpense ==
    (Passed /\ ~HasMatch) =>
        /\ Ext.type = "expense"
        /\ Ext.type_confidence = "uncertain"
        /\ Ext.type_warning # "None"

\* C5: a receipt that passed the filter and has no candidate matching the
\* user has confidence uncertain and a warning; its type is expense where an
\* amount was extracted and null where none was.
NoMatchIsUncertain ==
    (Passed /\ ~HasMatch) =>
        /\ Ext.type_confidence = "uncertain"
        /\ Ext.type_warning # "None"
        /\ Ext.type = (IF Ext.amount # None THEN "expense" ELSE "None")

\* both cases: another party's name with an amount, and without one
NoMatchWithAmount ==
    /\ Passed
    /\ ~HasMatch
    /\ RespPool # <<>>
    /\ Ext.amount # None
    /\ Ext.type = "expense"
    /\ Ext.type_warning = "choose_type"

NoMatchWithoutAmount ==
    /\ Passed
    /\ ~HasMatch
    /\ RespPool # <<>>
    /\ Ext.amount = None
    /\ Ext.type = "None"

\* C6 as stated: with an empty first or last name, or an anonymous caller,
\* no candidate matches and the classification is expense, uncertain.
EmptyNameIsExpenseUncertain ==
    (/\ request.kind = "ocr"
     /\ request.image
     /\ \/ ~request.user.is_authenticated
        \/ request.user.first_name = <<>>
        \/ request.user.last_name = <<>>
     /\ ~(response.status = 400)) =>
        /\ response.status = 200
        /\ response.match # "True"
        /\ Ext.type = "expense"
        /\ Ext.type_confidence = "uncertain"

\* C6: for an authenticated caller whose first name is empty no candidate
\* matches, whatever the last name and the text: match is false, the
\* confidence uncertain, the type expense where an amount was extracted and
\* null where none was.  An unauthenticated caller is refused (401 or 403)
\* before the handler runs.
EmptyFirstNameNeverMatches ==
    /\ (Passed /\ request.user.first_name = <<>>) =>
           /\ response.match = "False"
           /\ Ext.type_confidence = "uncertain"
           /\ Ext.type = (IF Ext.amount # None THEN "expense" ELSE "None")
    /\ (request.kind = "ocr" /\ ~request.user.is_authenticated) =>
           response.status \in NotAuthenticatedStatus

\* a user known by a last name only, and a receipt naming exactly that name
LastNameOnlyUserNamed ==
    /\ Passed
    /\ request.user.first_name = <<>>
    /\ request.user.last_name # <<>>
    /\ \E i \in 1..Len(RespPool) :
           normalize(RespPool[i]) = normalize(request.user.last_name)
    /\ Ext.amount # None
    /\ response.match = "False"
    /\ Ext.type = "expense"

\* C7 as stated: is_full_name is true only if the normalized candidate equals
\* the user's normalized full name, or is at least 85% similar to it, or its
\* first token is the user's first name and its last token is the user's last
\* name or at least 80% similar to it; also for users without a last name.
FullNameOnlyOnFullEvidence ==
    (fn.op = "check_name_match" /\ fn.out[2]) =>
        LET slip_norm  == normalize(fn.slip_name)
            first_norm == normalize(fn.user.first_name)
            last_norm  == IF fn.user.last_name # <<>>
                          THEN normalize(fn.user.last_name) ELSE <<>>
            full_norm  == strip(first_norm \o <<32>> \o last_norm)
            parts      == split(slip_norm)
            slip_last  == IF Len(parts) > 1 THEN parts[2] ELSE <<>>
        IN  \/ slip_norm = full_norm
            \/ RatioAtLeast(slip_norm, full_norm, FullSimilarityPct)
            \/ /\ parts # <<>>
               /\ parts[1] = first_norm
               /\ \/ slip_last = last_norm
                  \/ RatioAtLeast(slip_last, last_norm, LastSimilarityPct)

\* C8: the amount is the maximum of the pooled candidates <= 10,000,000 if
\* there is one, else the minimum candidate, else null.
SelectionPolicy ==
    fn.op = "found_amount" =>
        LET pool == Range(fn.found_amounts)
            low  == {a \in pool : ~AmtLess(Amt(ReasonableLimit, <<>>), a)}
        IN  IF low # {}
            THEN /\ fn.out # None
                 /\ fn.out[1] \in low
                 /\ \A a \in low : ~AmtLess(fn.out[1], a)
            ELSE IF pool # {}
            THEN /\ fn.out # None
                 /\ fn.out[1] \in pool
                 /\ \A a \in pool : ~AmtLess(a, fn.out[1])
            ELSE fn.out = None

\* candidates {50, 12000000} yield 50
CeilingPrefersSmall ==
    /\ fn.op = "found_amount"
    /\ Range(fn.found_amounts) = {Amt(50, <<>>), Amt(12000000, <<>>)}
    /\ fn.out = Some(Amt(50, <<>>))

\* only candidates above the ceiling: the minimum
AllAboveCeiling ==
    /\ fn.op = "found_amount"
    /\ Range(fn.found_amounts) = {Amt(12000000, <<>>)}
    /\ fn.out = Some(Amt(12000000, <<>>))

\* the value of a matched token, and whether the pooling discards it
TokenValue(m) == ParseFloat(RemoveCh(m, 44))

Discarded(m) ==
    LET v == TokenValue(m)
    IN  \/ ~v.ok
        \/ v.big
        \/ ~AmtLess(Amt(0, <<>>), Amt(v.w, v.f))
        \/ ~AmtLess(Amt(v.w, v.f), Amt(AmountLimit, <<>>))

\* C9: the amount, where there is one, is a value with 0 < amount <
\* 1,000,000,000 that a matched token kept by the pooling has; tokens that
\* do not parse, are <= 0 or >= 1,000,000,000 are dropped from the pool and
\* the extraction yields its result all the same.
AmountInRange ==
    fn.op = "found_amount" =>
        /\ \A i \in 1..Len(fn.found_amounts) :
               /\ AmtLess(Amt(0, <<>>), fn.found_amounts[i])
               /\ AmtLess(fn.found_amounts[i], Amt(AmountLimit, <<>>))
        /\ fn.out # None =>
               /\ AmtLess(Amt(0, <<>>), fn.out[1])
               /\ AmtLess(fn.out[1], Amt(AmountLimit, <<>>))
               /\ \E i \in 1..Len(fn.matches) :
                      /\ ~Discarded(fn.matches[i])
                      /\ Amt(TokenValue(fn.matches[i]).w, TokenValue(fn.matches[i]).f)
                             = fn.out[1]
        /\ (\A i \in 1..Len(fn.matches) : Discarded(fn.matches[i])) => fn.out = None

\* a text with a token of each discarded sort next to a good one
DiscardedBesideKept ==
    /\ fn.op = "found_amount"
    /\ fn.out # None
    /\ \E i \in 1..Len(fn.matches) :
           \/ ~TokenValue(fn.matches[i]).ok
           \/ TokenValue(fn.matches[i]).big
           \/ /\ TokenValue(fn.matches[i]).ok
              /\ Amt(TokenValue(fn.matches[i]).w, TokenValue(fn.matches[i]).f)
                     = Amt(0, <<>>)

\* the text without the commas that stand between two digits
StripCommas(text) ==
    LET keep == {i \in 1..Len(text) :
                    ~(/\ text[i] = 44
                      /\ i > 1 /\ text[i - 1] \in AsciiDigit
                      /\ i < Len(text) /\ text[i + 1] \in AsciiDigit)}
        RECURSIVE Build(_)
        Build(i) == IF i > Len(text) THEN <<>>
                    ELSE (IF i \in keep THEN <<text[i]>> ELSE <<>>) \o Build(i + 1)
    IN  Build(1)

\* C10 as stated: a text and the same text without the commas in its numeric
\* tokens yield the same amount.
CommaInvariance ==
    fn.op = "found_amount" => fn.out = found_amount(StripCommas(fn.text))

\* ------------------------------------------------------------ dates

\* the date loop has been applied to fn.text
DateCall == fn.op = "found_date"

\* the fields of a date string  year-MM-DD
DateYear(d) == DigitsToNat(SubSeq(d, 1, Len(d) - 6))
DateMonth(d) == DigitsToNat(SubSeq(d, Len(d) - 4, Len(d) - 3))
DateDay(d) == DigitsToNat(SubSeq(d, Len(d) - 1, Len(d)))

\* the date string d is a structurally valid date
ValidDateText(d) == ValidDate(DateDay(d), DateMonth(d), DateYear(d))

\* what the occurrence of pattern i found from position `from` on gives
DateOfOccurrence(i, text, from) ==
    DateOfMatch(text, SearchFrom(date_patterns[i], text, from, IOnly))

\* the positions from which pattern i has an occurrence that gives a valid date
ValidOccurrences(i, text) ==
    {from \in 1..Len(text) :
        /\ DateOfOccurrence(i, text, from).kind # "none"
        /\ ValidDateText(DateOfOccurrence(i, text, from).date)}

\* the patterns that have some occurrence giving a valid date
ProductivePatterns(text) ==
    {i \in 1..Len(date_patterns) : ValidOccurrences(i, text) # {}}

Least(S) == CHOOSE x \in S : \A y \in S : x <= y

\* the date of the first valid occurrence of the earliest productive pattern
DateOfEarliestProductive(text) ==
    IF ProductivePatterns(text) = {} THEN None
    ELSE LET i == Least(ProductivePatterns(text))
         IN  Some(DateOfOccurrence(i, text, Least(ValidOccurrences(i, text))).date)

\* C11 as stated: the extracted date is the date of the earliest pattern in
\* catalog order for which some occurrence in the text gives a valid date
EarliestProductivePatternWins ==
    DateCall => fn.out = DateOfEarliestProductive(fn.text)

\* the patterns whose first occurrence passed the validation of the loop
ValidatedFirst == {i \in 1..Len(date_patterns) : DateCall /\ fn.first[i].kind = "date"}

\* the patterns whose first occurrence was taken as an ISO date
IsoFirst == {i \in 1..Len(date_patterns) : DateCall /\ fn.first[i].kind = "iso"}

\* C11: only the first occurrence of each pattern is examined.  The extracted
\* date is the date of the earliest pattern in catalog order whose first
\* occurrence passes the validation; when there is no such pattern it is the
\* text of the first occurrence of the ISO pattern, and null when that pattern
\* does not occur either.  A date taken from the ISO pattern does not stop the
\* loop: a later pattern whose first occurrence is valid replaces it.
FirstOccurrenceOfEarliestPattern ==
    DateCall =>
        fn.out = IF ValidatedFirst # {} THEN Some(fn.first[Least(ValidatedFirst)].date)
                 ELSE IF IsoFirst # {} THEN Some(fn.first[Least(IsoFirst)].date)
                 ELSE None

\* a pattern has a valid occurrence after an invalid first one, and no date
\* is extracted
LaterOccurrenceIgnored ==
    /\ DateCall
    /\ fn.out = None
    /\ ProductivePatterns(fn.text) # {}

\* the date-prefixed pattern replaces the date taken from the ISO pattern
IsoDateReplaced ==
    /\ DateCall
    /\ IsoFirst # {}
    /\ ValidatedFirst # {}
    /\ \A i \in ValidatedFirst, j \in IsoFirst : i > j

\* C12 as stated: every extracted date, whichever pattern gave it, has its
\* day in 1..31, its month in 1..12 and its year in 1900..2100
ExtractedDateInRange ==
    DateCall /\ fn.out # None => ValidDateText(fn.out[1])

\* the year token of the first occurrence of pattern i: the first group of
\* the ISO pattern, the third group of the others
YearTokenOf(i, text, kind) ==
    GroupText(text, search(date_patterns[i], text, IOnly), IF kind = "iso" THEN 1 ELSE 3)

\* the year correction as a function of the year token
CorrectedYear(token) ==
    LET year == DigitsToNat(token)
    IN  IF Len(token) = 4 /\ year > 2500 THEN year - 543
        ELSE IF Len(token) = 2 /\ year >= 50 THEN 2500 + year - 543
        ELSE IF Len(token) = 2 THEN 2000 + year
        ELSE year

\* C13 as stated: whichever pattern of the catalog gives a date, the year of
\* the date is the corrected year of its year token (a 4-digit token above
\* 2500 less 543, a 2-digit token from 50 on as 25yy less 543, a 2-digit
\* token below 50 as 20yy)
YearCorrectedByEveryPattern ==
    DateCall =>
        \A i \in 1..Len(date_patterns) :
            fn.first[i].kind # "none" =>
                DateYear(fn.first[i].date) =
                    CorrectedYear(YearTokenOf(i, fn.text, fn.first[i].kind))

\* ------------------------------------------------------------ time

\* extract_time has been applied to fn.text
TimeCall == fn.op = "extract_time"

\* pattern i occurs in the text
TimeMatched(i, text) == search(time_patterns[i], text, NoFlags).s # 0

\* the HH:MM token of the match of pattern i
TimeTokenOf(i, text) == GroupText(text, search(time_patterns[i], text, NoFlags), 1)

\* the match of pattern i parses to an hour in 0..23 and a minute in 0..59
TimeParses(i, text) ==
    /\ TimeMatched(i, text)
    /\ HourOf(TimeTokenOf(i, text)) \in 0..23
    /\ MinuteOf(TimeTokenOf(i, text)) \in 0..59

\* the patterns whose match parses
ParsingPatterns(text) == {i \in 1..Len(time_patterns) : TimeParses(i, text)}

\* s is HH:MM with two ASCII digits each, hour at most 23, minute at most 59
IsHHMM(s) ==
    /\ Len(s) = 5
    /\ s[3] = Colon
    /\ \A i \in {1, 2, 4, 5} : s[i] \in AsciiDigit
    /\ HourOf(s) <= 23
    /\ MinuteOf(s) <= 59

\* C14: extract_time returns the time of the first pattern in catalog order
\* whose match parses to an hour in 0..23 and a minute in 0..59, as
\* zero-padded HH:MM with the hour and minute of that match, and null when
\* no pattern has such a match
FirstParsingTimeWins ==
    TimeCall =>
        IF ParsingPatterns(fn.text) = {} THEN fn.out = None
        ELSE /\ fn.out # None
             /\ IsHHMM(fn.out[1])
             /\ HourOf(fn.out[1]) = HourOf(TimeTokenOf(Least(ParsingPatterns(fn.text)), fn.text))
             /\ MinuteOf(fn.out[1]) = MinuteOf(TimeTokenOf(Least(ParsingPatterns(fn.text)), fn.text))

\* an earlier pattern matched a time out of range and a later pattern gave
\* the time, which needed a leading zero
LaterPatternGivesTime ==
    /\ TimeCall
    /\ fn.out # None
    /\ \E i \in 1..Len(time_patterns) :
          /\ i < Least(ParsingPatterns(fn.text))
          /\ TimeMatched(i, fn.text)
    /\ Len(TimeTokenOf(Least(ParsingPatterns(fn.text)), fn.text)) < 5

\* ------------------------------------------------------------ normalizer

\* fix_ocr_common has been applied to fn.text
FixCall == fn.op = "fix_ocr_common"

\* C15 as stated: normalizing a normalized text changes nothing
NormalizerIdempotent == FixCall => fn.again = fn.out

HasDigit(text) == \E i \in 1..Len(text) : text[i] \in DigitCh

\* C16 as stated: a text without a digit is returned unchanged
DigitFreeUnchanged == FixCall /\ ~HasDigit(fn.text) => fn.out = fn.text

\* character i of the text stands between two characters of S
Flanked(text, i, S) ==
    /\ 1 < i
    /\ i < Len(text)
    /\ text[i - 1] \in S
    /\ text[i + 1] \in S

\* an o or O between two characters that are digits or the mask letters x, X
HasMaskedO(text) ==
    \E i \in 1..Len(text) : text[i] \in ChO /\ Flanked(text, i, ChX \cup DigitCh)

\* C16: the length is kept, and a character is replaced only if it is an
\* o/O standing between digits or mask letters x/X, or one of l, I, s, S, B
\* standing between digits; so a text with no digit and no o/O between two
\* x/X is returned unchanged
SubstitutionOnlyWhenFlanked ==
    FixCall =>
        /\ Len(fn.out) = Len(fn.text)
        /\ \A i \in 1..Len(fn.text) :
              fn.out[i] # fn.text[i] =>
                  \/ fn.text[i] \in ChO /\ Flanked(fn.text, i, ChX \cup DigitCh)
                  \/ fn.text[i] \in {108, 73, 115, 83, 66} /\ Flanked(fn.text, i, DigitCh)
        /\ (~HasDigit(fn.text) /\ ~HasMaskedO(fn.text) => fn.out = fn.text)

\* a text without a digit is changed: an o between two x
DigitFreeTextChanged ==
    /\ FixCall
    /\ ~HasDigit(fn.text)
    /\ fn.out # fn.text

\* ------------------------------------------------------------ warnings

\* nothing was extracted: no amount and no name in any of the three lists
NothingExtracted == Ext.amount = None /\ RespPool = <<>>

\* the warning the priority order gives to the response
WarningByPriority ==
    IF NothingExtracted THEN "no_slip_data"
    ELSE IF Ext.amount = None THEN "no_amount"
    ELSE IF Ext.type_confidence = "uncertain" THEN "choose_type"
    ELSE IF response.match # "True" THEN "verify_type"
    ELSE "None"

\* C17: the response of a receipt that passed the filter carries the warning
\* of the first applicable rule in the order no slip data, no amount,
\* uncertain type, no name match, and no warning when none applies; the type
\* is null under the first two rules
WarningPriority ==
    Passed =>
        /\ Ext.type_warning = WarningByPriority
        /\ (Ext.amount = None => Ext.type = "None")
        /\ (Ext.type_warning = "None" => Ext.amount # None /\ response.match = "True")

\* two rules apply, no amount and uncertain type: the earlier one gives the
\* warning
NoAmountBeforeUncertain ==
    /\ Passed
    /\ ~NothingExtracted
    /\ Ext.amount = None
    /\ Ext.type_confidence = "uncertain"
    /\ Ext.type_warning = "no_amount"

\* ------------------------------------------------------------ OCR failures

\* the OCR call of the request failed
OcrFailed == Handled /\ request.ocr.kind \in OcrFailures

\* C18: whatever way the OCR call fails, the handler goes on with an empty
\* text: the response is the plausibility filter's rejection of the empty
\* text (400, is_valid_slip false, keyword count 0, text empty, nothing
\* extracted), the same response as for a recognized text that is empty
OcrFailureIsEmptyText ==
    OcrFailed =>
        /\ response.status = 400
        /\ ~response.is_valid_slip
        /\ response.slip_keyword_count = 0
        /\ response.text = <<>>
        /\ response.extracted = None
        /\ response = ocr_response(RecognizedText([kind |-> "parsed", text |-> <<>>]), request.user)

\* a call failed after it had received the text of a receipt
FailedWithReceiptText ==
    /\ OcrFailed
    /\ is_likely_slip(request.ocr.text)
    /\ response.status = 400

\* ------------------------------------------------------------ title

\* extract_transaction_title has been applied to fn.text
TitleCall == fn.op = "extract_transaction_title"

\* the catalog patterns that occur in the text
MatchingTitlePatterns(text) ==
    {i \in 1..Len(title_patterns) : search(title_patterns[i], text, IOnly).s # 0}

\* the match of the first catalog pattern that occurs in the text
FirstTitleMatch(text) ==
    GroupText(text, search(title_patterns[Least(MatchingTitlePatterns(text))], text, IOnly), 1)

\* the first 30 characters and the marker if s is longer than 30 characters
CutAt30(s) == IF Len(s) > 30 THEN SubSeq(s, 1, 30) \o <<46, 46, 46>> ELSE s

\* C19 as stated: a returned title is the match of the first catalog pattern
\* that matches, cut to 30 characters and the marker if the match is longer
TitleIsMatchCut ==
    TitleCall /\ fn.out # None => fn.out[1] = CutAt30(FirstTitleMatch(fn.text))

\* C19: a title is returned exactly when a catalog pattern matches; it is
\* the match of the first such pattern with the white space around it
\* removed, and if that is longer than 30 characters, its first 30
\* characters followed by "..."; a title is never longer than 33 characters
TitleIsStrippedMatchCut ==
    TitleCall =>
        IF MatchingTitlePatterns(fn.text) = {} THEN fn.out = None
        ELSE /\ fn.out = Some(CutAt30(strip(FirstTitleMatch(fn.text))))
             /\ Len(fn.out[1]) <= 33

\* a match of 31 characters that begins with a blank is returned without
\* its blank and without the marker
StrippedTitleReturnedWhole ==
    /\ TitleCall
    /\ fn.out # None
    /\ Len(FirstTitleMatch(fn.text)) > 30
    /\ fn.out[1] = strip(FirstTitleMatch(fn.text))

\* a title of more than 30 characters is returned cut, with the marker
LongTitleCut ==
    /\ TitleCall
    /\ fn.out # None
    /\ Len(fn.out[1]) = 33

\* ------------------------------------------------------------ bulk upload

\* a step that serves a bulk_upload request of an authenticated caller
BulkStep ==
    /\ Idle
    /\ request'.kind = "bulk_upload"
    /\ request'.user.is_authenticated

\* the rows the step added to the table
NewSlips == {k \in (Len(slips) + 1)..Len(slips') : TRUE}

\* file f of the upload gave exactly one new slip, of the requesting user,
\* which is listed in created; it is not listed in errors
CreatedOnce(f) ==
    /\ Cardinality({k \in NewSlips : slips'[k].image = f.name}) = 1
    /\ \A k \in NewSlips : slips'[k].user = request'.user
    /\ Cardinality({j \in 1..Len(response'.created) :
                      /\ response'.created[j].image = f.name
                      /\ response'.created[j].id \in NewSlips}) = 1
    /\ \A j \in 1..Len(response'.errors) : response'.errors[j].filename # f.name

\* file f of the upload gave no slip and is listed once in errors
RefusedOnce(f) ==
    /\ \A k \in NewSlips : slips'[k].image # f.name
    /\ Cardinality({j \in 1..Len(response'.errors) :
                      response'.errors[j].filename = f.name}) = 1

\* the outcome of an upload of N files
BulkOutcome ==
    IF request'.files = <<>>
    THEN response'.status = 400 /\ slips' = slips
    ELSE /\ response'.status = 200
         /\ Len(response'.created) + Len(response'.errors) = Len(request'.files)
         /\ Len(slips') = Len(slips) + Len(response'.created)
         /\ SubSeq(slips', 1, Len(slips)) = slips
         /\ \A i \in 1..Len(request'.files) :
               IF is_valid(request'.data, request'.files[i])
               THEN CreatedOnce(request'.files[i])
               ELSE RefusedOnce(request'.files[i])
         /\ ((\A i \in 1..Len(request'.files) : is_valid(request'.data, request'.files[i]))
                => Len(slips') = Len(slips) + Len(request'.files))

\* C20: bulk_upload with N files handles each file exactly once: a valid
\* file creates exactly one slip of the requesting user, listed in created,
\* any other file is listed in errors; len(created) + len(errors) = N, the
\* table grows by len(created), the rows it had are kept; with no files the
\* response is 400 and the table is unchanged
EveryFileHandledOnce == [][BulkStep => BulkOutcome]_vars

\* an upload of a valid and an invalid file into a table that had a row
MixedUploadServed ==
    /\ request.kind = "bulk_upload"
    /\ response.status = 200
    /\ Len(response.created) = 1
    /\ Len(response.errors) = 1
    /\ Len(slips) > 1

\* ------------------------------------------------------------ counterparty

NamesCalled == fn.op = "classify"

\* the candidates of a list that do not match the user
Others(pool) == other_names(pool, fn.user)

AllCandidates == fn.found_names \o fn.found_senders \o fn.found_receivers

Among(name, pool) == \E i \in 1..Len(pool) : pool[i] = name

UserMatched == NamesCalled /\ fn.out.match_status = "True"

\* the claim as stated in C21: with the user's name matched, whenever some
\* candidate of the receiver, sender or general list does not match the user,
\* the account name is a candidate that does not match the user
CounterpartyFromAnyList ==
    (UserMatched /\ Others(AllCandidates) # <<>>) =>
        Among(fn.out.suggested_account_name, Others(AllCandidates))

\* C21: with the full name matched (income) the account name is the first
\* candidate of general + sender + receiver list that does not match the user,
\* and the user's full name when there is none; with only abbreviated matches
\* (expense) it is the first candidate of general + receiver list that does
\* not match the user, and the first receiver (or nothing) when there is none:
\* the sender list is not consulted.
CounterpartyByCase ==
    UserMatched =>
        IF fn.out.suggested_type = "income"
        THEN IF Others(AllCandidates) # <<>>
             THEN fn.out.suggested_account_name = Others(AllCandidates)[1]
             ELSE fn.out.suggested_account_name = FullName(fn.user)
        ELSE IF Others(fn.found_names \o fn.found_receivers) # <<>>
             THEN fn.out.suggested_account_name
                      = Others(fn.found_names \o fn.found_receivers)[1]
             ELSE fn.out.suggested_account_name = First(fn.found_receivers)

\* an expense whose only candidate that does not match the user is a sender:
\* the account name is the user's own abbreviated name
SenderNotConsulted ==
    /\ UserMatched
    /\ fn.out.suggested_type = "expense"
    /\ Others(fn.found_senders) # <<>>
    /\ Others(fn.found_names \o fn.found_receivers) = <<>>
    /\ fn.out.suggested_account_name = First(fn.found_receivers)
    /\ IsMatch(fn.out.suggested_account_name, fn.user)

\* ------------------------------------------------------------ honorifics

CleanCalled == fn.op = "clean_name"

\* the list the cue of the text fills
RoleList == IF fn.cue = HonorificCues[3] THEN fn.found_senders ELSE fn.found_receivers

\* the candidate of the text is listed as its name, and nothing else of the
\* text is listed than the name or a part of it
StoredAsName ==
    /\ fn.cleaned = fn.name
    /\ RoleList = <<fn.name>>
    /\ Among(fn.name, fn.found_names)
    /\ \A i \in 1..Len(fn.found_names) : Contains(fn.name, fn.found_names[i])

\* C22: a candidate written as an honorific of the list followed by a name is
\* stored in the name lists as exactly that name.
HonorificStripped == CleanCalled => StoredAsName

\* the same for the honorifics other than นางสาว
OtherHonorificsStripped ==
    (CleanCalled /\ fn.honorific # Honorifics[3]) => StoredAsName

\* a candidate written with นางสาว that is listed with the rest of the
\* honorific in front of it
HonorificFragmentKept ==
    /\ CleanCalled
    /\ fn.honorific = Honorifics[3]
    /\ RoleList # <<fn.name>>
    /\ fn.cleaned # fn.name

\* ------------------------------------------------------------ name lists

\* the cleaned names of the matches ms that the list accepts, in the order
\* of the matches
Accepted(ms, general) ==
    SelectSeq([k \in 1..Len(ms) |-> clean_name(ms[k])],
              LAMBDA n : IF general THEN GeneralNameOk(n) ELSE is_valid_name(n))

\* every accepted name in the order it is discovered: pattern by pattern in
\* catalog order, the matches of one pattern in text order
RECURSIVE Discovered(_, _, _, _)
Discovered(patterns, i, text, general) ==
    IF i > Len(patterns) THEN <<>>
    ELSE Accepted(findall(patterns[i], text, IM), general)
         \o Discovered(patterns, i + 1, text, general)

\* the place of the first discovery of a name
FirstSeenAt(name, found) == CHOOSE k \in 1..Len(found) : found[k] = name /\ \A j \in 1..(k - 1) : found[j] # name

\* list holds every discovered name once, in the order of first discovery
FirstSeenOrder(list, found) ==
    /\ \A i, j \in 1..Len(list) : i # j => list[i] # list[j]
    /\ \A i \in 1..Len(list) : Among(list[i], found)
    /\ \A k \in 1..Len(found) : Among(found[k], list)
    /\ \A i, j \in 1..Len(list) :
           i < j => FirstSeenAt(list[i], found) < FirstSeenAt(list[j], found)

\* C23: each of found_names, found_receivers and found_senders contains no
\* string twice (compared case-sensitively) and lists its names in the order
\* of first discovery, patterns in catalog order and the matches of a pattern
\* in text order.
ListsDeduplicatedInOrder ==
    NamesCalled =>
        /\ FirstSeenOrder(fn.found_names, Discovered(name_patterns, 1, fn.text, TRUE))
        /\ FirstSeenOrder(fn.found_receivers, Discovered(receiver_patterns, 1, fn.text, FALSE))
        /\ FirstSeenOrder(fn.found_senders, Discovered(sender_patterns, 1, fn.text, FALSE))

\* a text whose receiver is discovered twice, as a receiver and as a general
\* name, and listed once in each list
RepeatedNameListedOnce ==
    /\ NamesCalled
    /\ Len(Discovered(receiver_patterns, 1, fn.text, FALSE)) > Len(fn.found_receivers)
    /\ Len(Discovered(name_patterns, 1, fn.text, TRUE)) > Len(fn.found_names)
    /\ Len(fn.found_receivers) = 1
    /\ Len(fn.found_names) = 1

\* two receivers that differ in case only are both listed
CaseVariantsBothListed ==
    /\ NamesCalled
    /\ Len(fn.found_receivers) = 2
    /\ fn.found_receivers[1] # fn.found_receivers[2]
    /\ lower(fn.found_receivers[1]) = lower(fn.found_receivers[2])

\* the same name in the receiver list and in the sender list
NameInTwoFoundLists ==
    /\ NamesCalled
    /\ \E i \in 1..Len(fn.found_receivers) : Among(fn.found_receivers[i], fn.found_senders)

\* ------------------------------------------------------------ sessions

\* the refresh endpoint has accepted the refresh token of the request
RefreshAccepted == request.kind = "refresh" /\ response.status = 200

\* the access_token cookie of the request has authenticated it
CookieAccepted ==
    /\ request.kind \in {"authenticated", "change_password"}
    /\ response.status # 401

\* C24: after a successful change-password request the session is expired: a
\* refresh token issued before the change is no longer accepted by the
\* refresh endpoint, and an access-token cookie issued before the change no
\* longer authenticates a request.
SessionExpiredAfterChange ==
    /\ RefreshAccepted => ~request.old
    /\ CookieAccepted => ~request.old

\* the first half alone: the refresh endpoint
OldRefreshTokenRefused == RefreshAccepted => ~request.old

\* the second half alone: the access-token cookie
OldAccessCookieRefused == CookieAccepted => ~request.old

\* ------------------------------------------------------------ last admin

\* C25: after any interleaving of delete-user, bulk-delete-users and
\* toggle-admin requests of authenticated admins, a user with is_staff = true
\* still exists.
AdminRemains == Staff(auth_user) # {}

\* ------------------------------------------------------------ valid slips

\* C26: in every 200 response of the OCR operation, is_valid_slip is true
\* exactly when an amount was extracted: names alone never make a slip valid,
\* and a found amount always does.
ValidExactlyWithAmount ==
    (request.kind = "ocr" /\ response.status = 200) =>
        (response.is_valid_slip <=> Ext.amount # None)

\* a 200 response with names and no amount: not a valid slip
NamesAloneNotValid ==
    /\ Passed
    /\ RespPool # <<>>
    /\ Ext.amount = None
    /\ ~response.is_valid_slip

\* a 200 response with an amount and no name in any list: a valid slip
AmountAloneValid ==
    /\ Passed
    /\ RespPool = <<>>
    /\ Ext.amount # None
    /\ response.is_valid_slip

\* ------------------------------------------------------------ keyword type

\* the type and the confidence the names of the response give
NameConfidence ==
    IF HasFullMatch THEN "full_name_match"
    ELSE IF HasMatch THEN "abbreviated_name_match" ELSE "uncertain"

NameType == IF HasFullMatch THEN "income" ELSE "expense"

\* the type the keywords of the normalized text give
KeywordType == detected_type(fix_ocr_common(RawText))

\* C27: for an authenticated caller, every 200 response of the OCR operation
\* has type_confidence in {full_name_match, abbreviated_name_match,
\* uncertain}; the type from the keywords and the confidences 'keyword' and
\* 'unknown' are overwritten by the classification by names and never reach
\* the response.
KeywordTypeOverwritten ==
    Passed =>
        /\ Ext.type_confidence \in {"full_name_match", "abbreviated_name_match", "uncertain"}
        /\ Ext.type_confidence = NameConfidence
        /\ Ext.type \in {"None", NameType}

\* a receipt with an income keyword and no name of the user: expense,
\* uncertain
IncomeKeywordIgnored ==
    /\ Passed
    /\ KeywordType = "income"
    /\ Ext.type = "expense"
    /\ Ext.type_confidence = "uncertain"

\* a receipt with an expense keyword and the full name of the user: income
ExpenseKeywordFullName ==
    /\ Passed
    /\ KeywordType = "expense"
    /\ Ext.type = "income"
    /\ Ext.type_confidence = "full_name_match"

\* a receipt without a type keyword and without a name of the user
NoKeywordNoName ==
    /\ Passed
    /\ KeywordType = "None"
    /\ Ext.type_confidence = "uncertain"

\* ------------------------------------------------------------ roles

\* a list without its i-th candidate
Without(pool, i) == SubSeq(pool, 1, i - 1) \o SubSeq(pool, i + 1, Len(pool))

\* the three lists after the i-th candidate of list a went to list b, to its
\* front or to its end
MovedTo(lists, a, i, b, front) ==
    [k \in 1..3 |->
        IF k = a THEN Without(lists[a], i)
        ELSE IF k = b
        THEN IF front THEN <<lists[a][i]>> \o lists[b] ELSE Append(lists[b], lists[a][i])
        ELSE lists[k]]

\* every way of moving one candidate from one list to another
Moves(lists) ==
    {MovedTo(lists, m[1], m[2], m[3], front) :
        m \in {x \in (1..3) \X (1..Len(lists[1] \o lists[2] \o lists[3])) \X (1..3) :
                   x[1] # x[3] /\ x[2] <= Len(lists[x[1]])},
        front \in BOOLEAN}

TypeAndConfidence(c) == <<c.suggested_type, c.type_confidence>>

\* type and type_confidence of receiver, sender and general list
TypeOf(lists, user) == TypeAndConfidence(classify(lists[1], lists[2], lists[3], user))

FoundLists == <<fn.found_receivers, fn.found_senders, fn.found_names>>

\* C28: the suggested type and type_confidence depend only on the candidates
\* pooled over the three lists, not on their roles: moving a candidate from
\* one of the receiver, sender and general lists to another never changes
\* type or type_confidence.
RolesDoNotDecide ==
    NamesCalled =>
        \A lists \in Moves(FoundLists) : TypeOf(lists, fn.user) = TypeAndConfidence(fn.out)

\* the user's abbreviated name stands in the receiver list and in no other:
\* moved to the sender list it still gives expense
ReceiverMovedToSender ==
    /\ UserMatched
    /\ fn.out.type_confidence = "abbreviated_name_match"
    /\ \E i \in 1..Len(fn.found_receivers) : IsMatch(fn.found_receivers[i], fn.user)
    /\ \A i \in 1..Len(fn.found_senders) : ~IsMatch(fn.found_senders[i], fn.user)
    /\ \A i \in 1..Len(fn.found_names) : ~IsMatch(fn.found_names[i], fn.user)
    /\ Cardinality(Moves(FoundLists)) > 1

\* the user's full name stands in the sender list only: moved to the
\* receiver list it still gives income
SenderMovedToReceiver ==
    /\ UserMatched
    /\ fn.out.type_confidence = "full_name_match"
    /\ \A i \in 1..Len(fn.found_receivers) : ~IsMatch(fn.found_receivers[i], fn.user)
    /\ \E i \in 1..Len(fn.found_senders) : IsMatch(fn.found_senders[i], fn.user)

\* ------------------------------------------------------------ shortenings

ShorteningChecked == fn.op = "check_shortening"

\* the similarity of the normalized shortening to the user's normalized full
\* name is at least 85%
NearlyFull ==
    RatioAtLeast(normalize(fn.slip_name),
                 strip(normalize(fn.user.first_name) \o <<32>> \o normalize(fn.user.last_name)),
                 FullSimilarityPct)

\* C29: a strict shortening of the user's registered name (the first name
\* alone, or the first name followed by a proper prefix of the last name) is
\* never flagged is_full_name by check_name_match, so it never by itself turns
\* the classification into income.
ShorteningNeverFull == ShorteningChecked => ~fn.out[2]

\* what check_name_match does with a strict shortening: it is flagged
\* is_full_name exactly when its normalized form is at least 85% similar to
\* the user's normalized full name
ShorteningFullOnlyIfSimilar == ShorteningChecked => (fn.out[2] <=> NearlyFull)

\* a last name cut to three characters or more and less than 85% similar:
\* abbreviated
LongPrefixAbbreviated ==
    /\ ShorteningChecked
    /\ Len(fn.slip_name) > Len(fn.user.first_name) + 1 + MaxAbbrevLen
    /\ fn.out = <<TRUE, FALSE>>

\* the first name alone flagged is_full_name
FirstNameAloneFull ==
    /\ ShorteningChecked
    /\ fn.slip_name = fn.user.first_name
    /\ fn.out = <<TRUE, TRUE>>

\* a last name cut to one or two characters flagged is_full_name
ShortPrefixFull ==
    /\ ShorteningChecked
    /\ Len(fn.slip_name) > Len(fn.user.first_name) + 1
    /\ Len(fn.slip_name) <= Len(fn.user.first_name) + 1 + MaxAbbrevLen
    /\ fn.out = <<TRUE, TRUE>>

\* ------------------------------------------------------------ calendar

LeapYear(year) == year % 4 = 0 /\ (year % 100 # 0 \/ year % 400 = 0)

\* the number of days of a month of the Gregorian calendar
DaysInMonth(year, month) ==
    IF month = 2 THEN (IF LeapYear(year) THEN 29 ELSE 28)
    ELSE IF month \in {4, 6, 9, 11} THEN 30 ELSE 31

\* the date string d names a day of the calendar
CalendarDay(d) ==
    /\ DateMonth(d) \in 1..12
    /\ DateDay(d) \in 1..DaysInMonth(DateYear(d), DateMonth(d))

\* C30: whenever the date extractor finds a date, the returned ISO string
\* denotes a day that exists in the calendar: the day never exceeds the length
\* of the month (31 February is never returned).
DateIsCalendarDay == (DateCall /\ fn.out # None) => CalendarDay(fn.out[1])

\* what the validation keeps: the day of a returned date is at most 31
DayAtMost31 == (DateCall /\ fn.out # None) => ValidDateText(fn.out[1])

\* 29 February of a leap year is returned
LeapDayReturned ==
    /\ DateCall
    /\ fn.out # None
    /\ DateMonth(fn.out[1]) = 2
    /\ DateDay(fn.out[1]) = 29
    /\ CalendarDay(fn.out[1])

====
